---- MODULE Spec2Model ----
(***************************************************************************)
(* Model of the multi-tenant embedding store of codebase-assistant          *)
(* (src/multi_embedding_store.py): the handle caches, the per-tenant        *)
(* directories under base_db_dir, the documents of each tenant's            *)
(* collection, and the operations add_documents, query_codebase,            *)
(* get_codebase_stats, delete_codebase, _force_remove_directory and         *)
(* list_codebases.  One caller runs one operation at a time; the            *)
(* operations that the code performs in phases (add_documents: provision,   *)
(* clear, insert; delete_codebase: evict, delete attempts, rename) take     *)
(* one step per phase, so that the states between the phases are visible.   *)
(* Failures of the storage engine and of the filesystem are inputs.         *)
(*                                                                         *)
(* Further specifications over the same variables cover the cleanup         *)
(* utility (src/cleanup_chromadb.py, SpecReclaimers), two callers inside    *)
(* get_client_and_collection (SpecCallers, where pc and call are indexed by *)
(* caller), the splitter chunk_code (src/chunking.py, SpecChunk) and the    *)
(* ingest paths of CodebaseManager and TempRepositoryProcessor              *)
(* (src/codebase_manager.py, src/temp_processor.py, SpecIngest),            *)
(* add_documents with a caller-supplied metadata list (SpecMetadata), the   *)
(* catalog operations of CodebaseManager over codebases.db and the cloned   *)
(* repositories (SpecManager), and two callers inside process_repository    *)
(* on the shared TempRepositoryProcessor (SpecOverlap).                     *)
(***************************************************************************)
EXTENDS Integers, Sequences, FiniteSets, TLC

VARIABLES
    clients,      \* self.clients: tenant id -> path of the open client, or NoHandle
    collections,  \* self.collections: tenant id -> path of the open collection, or NoHandle
    disk,         \* base_db_dir: directory name -> directory (or NoDir)
    pc,           \* position of the caller inside the running operation
    call,         \* arguments and locals of the running (or last) operation
    result,       \* outcome of the last operation, Pending while one runs
    temp_dir,     \* TempRepositoryProcessor.temp_dir: a directory name, or None
    tmp,          \* the system's temporary directory: directory name -> present or not
    db,           \* codebases.db: the rows of table codebases and its AUTOINCREMENT counter
    repos,        \* BASE_DIR/repos: local path -> cloned repository, or None
    current_codebase_id   \* CodebaseManager.current_codebase_id: an id, or NoCodebase

vars == <<clients, collections, disk, pc, call, result, temp_dir, tmp,
          db, repos, current_codebase_id>>

\* the state of the temporary processor, which no operation of the store,
\* of the cleanup utility or of the splitter reads or writes
processor_vars == <<temp_dir, tmp>>

\* the state of CodebaseManager beside its store and its processor, which
\* only the operations of the manager read or write
manager_vars == <<db, repos, current_codebase_id>>

----------------------------------------------------------------------------
(* Bounds *)

MaxDocs == 2         \* longest batch handed to add_documents
NumFiles == 2        \* entries inside one tenant directory
NumStamps == 1       \* values int(time.time()) can take

(* Program constants *)

max_retries == 3         \* _force_remove_directory
n_results_default == 3   \* query_codebase(n_results=3)

Tenants == {1, 2}        \* the tenant ids in use
Files == 1..NumFiles
DbFile == 1              \* the entry that holds the collection's documents
Timestamps == 1..NumStamps
Texts == {"a", "b"}
\* the batches handed to add_documents: n copies of one text
Batches == {[i \in 1..n |-> x] : n \in 0..MaxDocs, x \in Texts}

\* tenant 1 receives every batch, tenant 2 the empty batch and one document
BatchesFor(t) == IF t = 1 THEN Batches ELSE {<<>>, <<"b">>}

----------------------------------------------------------------------------
(* Names.  A directory name is the sequence of its "_"-separated tokens,   *)
(* so f"codebase_{id}" is <<"codebase", str(id)>>.                          *)

Digits == <<"0", "1", "2", "3", "4", "5", "6", "7", "8", "9">>

\* str(n) inside an f-string, for the one-digit numbers of the model
str(n) == Digits[n + 1]

\* int(s) succeeds exactly on the numerals
IsNumeral(s) == \E n \in 0..9 : Digits[n + 1] = s
int(s) == CHOOSE n \in 0..9 : Digits[n + 1] = s

get_collection_name(codebase_id) == <<"codebase", str(codebase_id)>>

\* variant: every tenant resolves to one path
get_db_path_shared(codebase_id) == <<"codebase", str(1)>>

get_db_path(codebase_id) == <<"codebase", str(codebase_id)>>

\* f"{path}_backup_{int(time.time())}"
backup_path(path, ts) == path \o <<"backup", str(ts)>>

AllNames ==
    {get_db_path(t) : t \in Tenants}
        \cup {backup_path(get_db_path(t), ts) : t \in Tenants, ts \in Timestamps}

NoHandle == <<>>

----------------------------------------------------------------------------
(* Directories and collections *)

NoDir == [exists |-> FALSE, files |-> {}, docs |-> {}]
EmptyDir == [exists |-> TRUE, files |-> {}, docs |-> {}]

\* one stored document: id f"doc_{codebase_id}_{i}", text, and the metadata
\* {"chunk_id": i, "codebase_id": codebase_id} of line 76
Doc(codebase_id, i, text) ==
    [id |-> <<"doc", codebase_id, i>>, document |-> text, codebase_id |-> codebase_id,
     chunk_id |-> i]

\* line 76: the metadata list made when the caller passes none
synthesized(codebase_id, n) ==
    [i \in 1..n |-> [chunk_id |-> i - 1, codebase_id |-> codebase_id]]

\* lines 79-80: meta["codebase_id"] = codebase_id for every entry passed
with_codebase_id(metadata, codebase_id) ==
    [i \in 1..Len(metadata) |-> [metadata[i] EXCEPT !.codebase_id = codebase_id]]

\* the records collection.add stores for ids, documents and metadatas of
\* one length
NewDocsWith(codebase_id, documents, metadata) ==
    {[id |-> <<"doc", codebase_id, i - 1>>, document |-> documents[i],
      codebase_id |-> metadata[i].codebase_id, chunk_id |-> metadata[i].chunk_id] :
        i \in 1..Len(documents)}

\* the ids/documents/metadatas that add_documents builds from a batch
NewDocs(codebase_id, documents) ==
    {Doc(codebase_id, i - 1, documents[i]) : i \in 1..Len(documents)}

\* os.makedirs(db_path, exist_ok=True)
makedirs(dir) == IF dir.exists THEN dir ELSE EmptyDir

\* chromadb.PersistentClient(path): opens the database file, creating what is missing
PersistentClient(dir) ==
    [dir EXCEPT !.files = Files, !.docs = IF DbFile \in dir.files THEN @ ELSE {}]

\* collection.get(where={"codebase_id": codebase_id})['ids']
coll_get_ids(dir, codebase_id) ==
    {d.id : d \in {e \in dir.docs : e.codebase_id = codebase_id}}

\* collection.delete(ids=existing_ids)
coll_delete(dir, ids) == [dir EXCEPT !.docs = {d \in @ : d.id \notin ids}]

\* collection.add(...): a record whose id is already stored is ignored
coll_add(dir, new) ==
    [dir EXCEPT !.docs = @ \cup {d \in new : \A e \in @ : e.id # d.id}]

\* collection.count()
coll_count(dir) == Cardinality(dir.docs)

Min(a, b) == IF a < b THEN a ELSE b

\* collection.query(..., n_results=n): the possible result sets
coll_query(dir, n) ==
    {S \in SUBSET dir.docs : Cardinality(S) = Min(n, Cardinality(dir.docs))}

\* a directory moved by os.rename keeps its entries; the documents inside it
\* can no longer be reached through any tenant path and are not tracked
relocated(dir) == [dir EXCEPT !.docs = {}]

\* what a failed shutil.rmtree leaves behind after unlinking the entries in S
rmtree_partial(dir, S) ==
    [dir EXCEPT !.files = @ \ S, !.docs = IF DbFile \in S THEN {} ELSE @]

----------------------------------------------------------------------------
(* Results *)

Pending == [op |-> "none", id |-> 0, status |-> "pending", docs |-> {},
            document_count |-> 0, exists |-> FALSE, ids |-> <<>>]

Ret(op, id, status) == [Pending EXCEPT !.op = op, !.id = id, !.status = status]

NoCall == [op |-> "none", id |-> 0, documents |-> <<>>, replace_existing |-> FALSE,
           attempt |-> 0, removed |-> -1, orig |-> {}, backup |-> NoHandle,
           slept |-> <<>>, metadata |-> <<>>]

----------------------------------------------------------------------------
(* Temporary directories.  tempfile.mkdtemp(prefix=...) makes a directory   *)
(* with a fresh name, <<"codebase", "temp", suffix>>; a name with the        *)
(* further token "cleanup_failed" is what _cleanup renames it to.            *)

None == <<>>

NumTemps == 2   \* fresh names mkdtemp can draw

TempDirs == {<<"codebase", "temp", str(k)>> : k \in 1..NumTemps}

\* f"{self.temp_dir}_cleanup_failed"
cleanup_failed_name(dir) == dir \o <<"cleanup_failed">>

TempNames == TempDirs \cup {cleanup_failed_name(d) : d \in TempDirs}

----------------------------------------------------------------------------
(* Initial state: a fresh MultiCodebaseEmbeddingStore (empty caches) over a *)
(* base directory that an earlier process may have populated.               *)

----------------------------------------------------------------------------
(* The catalog, src/database.py, and the local repositories.  Table        *)
(* codebases is a function from id to row, None where there is no row; its  *)
(* AUTOINCREMENT counter never hands out an id twice.                       *)

STORAGE_MODE_LOCAL == "local"
STORAGE_MODE_TEMP == "temporary"

\* two names that differ only in case, and the one URL they are cloned from
Names == {"App", "app"}
Urls == {"u"}

\* name.replace(" ", "_").lower()
lower(name) == IF name = "App" THEN "app" ELSE name

\* os.path.join(BASE_DIR, "repos", ...), line 40
local_path_of(name) == <<"repos", lower(name)>>

Paths == {local_path_of(name) : name \in Names}

\* a row of table codebases; file_count and chunk_count DEFAULT 0
Row(name, repo_url, local_path, storage_mode) ==
    [name |-> name, repo_url |-> repo_url, local_path |-> local_path,
     storage_mode |-> storage_mode, file_count |-> 0, chunk_count |-> 0]

NoRows == [codebases |-> [id \in Tenants |-> None], seq |-> 0]

\* self.current_codebase_id = None; the ids of the catalog start at 1
NoCodebase == 0

InitDirs(t) ==
    {NoDir} \cup {[exists |-> TRUE, files |-> Files, docs |-> NewDocs(t, X)] :
                     X \in {<<>>, <<"a">>}}

Init ==
    /\ clients = [t \in Tenants |-> NoHandle]
    /\ collections = [t \in Tenants |-> NoHandle]
    /\ disk \in {f \in [AllNames -> UNION {InitDirs(t) : t \in Tenants}] :
                    /\ \A t \in Tenants : f[get_db_path(t)] \in InitDirs(t)
                    /\ \A n \in AllNames :
                          (\A t \in Tenants : n # get_db_path(t)) => f[n] = NoDir}
    /\ pc = "idle"
    /\ call = NoCall
    /\ result = Pending
    /\ temp_dir = None
    /\ tmp = [d \in TempNames |-> FALSE]
    /\ db = NoRows
    /\ repos = [path \in Paths |-> None]
    /\ current_codebase_id = NoCodebase

----------------------------------------------------------------------------
(* get_client_and_collection, lines 28-40.  fault names the call that      *)
(* raises, if any.  The value is the state it leaves and whether it raised. *)

get_client_and_collection(codebase_id, fault) ==
    IF clients[codebase_id] = NoHandle
    THEN LET db_path == get_db_path(codebase_id)
             made == [disk EXCEPT ![db_path] = makedirs(@)]
             opened == [made EXCEPT ![db_path] = PersistentClient(@)]
         IN  CASE fault = "makedirs" ->
                    [clients |-> clients, collections |-> collections,
                     disk |-> disk, raised |-> TRUE]
               [] fault = "client" ->
                    [clients |-> clients, collections |-> collections,
                     disk |-> made, raised |-> TRUE]
               [] fault = "collection" ->
                    [clients |-> [clients EXCEPT ![codebase_id] = db_path],
                     collections |-> collections,
                     disk |-> opened, raised |-> TRUE]
               [] OTHER ->
                    [clients |-> [clients EXCEPT ![codebase_id] = db_path],
                     collections |-> [collections EXCEPT ![codebase_id] = db_path],
                     disk |-> opened, raised |-> FALSE]
    ELSE \* line 40: KeyError when the client is cached without its collection
         [clients |-> clients, collections |-> collections, disk |-> disk,
          raised |-> (collections[codebase_id] = NoHandle)]

ProvisionFaults == {"none", "makedirs", "client", "collection"}

\* a direct call of get_client_and_collection
Provision(codebase_id, fault) ==
    /\ pc = "idle"
    /\ LET r == get_client_and_collection(codebase_id, fault)
       IN  /\ clients' = r.clients
           /\ collections' = r.collections
           /\ disk' = r.disk
           /\ result' = Ret("provision", codebase_id,
                            IF r.raised THEN "raise" ELSE "ok")
    /\ call' = [NoCall EXCEPT !.op = "provision", !.id = codebase_id]
    /\ pc' = "idle"
    /\ UNCHANGED processor_vars
    /\ UNCHANGED manager_vars

----------------------------------------------------------------------------
(* add_documents, lines 64-105 *)

\* variant: provisions before it looks at the batch
AddBegin_provision_first(codebase_id, documents, replace_existing, fault) ==
    /\ pc = "idle"
    /\ LET r == get_client_and_collection(codebase_id, fault)
       IN  /\ clients' = r.clients
           /\ collections' = r.collections
           /\ disk' = r.disk
           /\ call' = [NoCall EXCEPT !.op = "add", !.id = codebase_id,
                                     !.documents = documents,
                                     !.replace_existing = replace_existing,
                                     !.metadata =
                                         synthesized(codebase_id, Len(documents))]
           /\ IF r.raised
              THEN /\ result' = Ret("add", codebase_id, "raise")
                   /\ pc' = "idle"
              ELSE IF documents = <<>>
                   THEN /\ result' = Ret("add", codebase_id, "ok")
                        /\ pc' = "idle"
                   ELSE /\ result' = Pending
                        /\ pc' = IF replace_existing THEN "add_clear" ELSE "add_insert"
    /\ UNCHANGED processor_vars
    /\ UNCHANGED manager_vars

\* lines 66-80: the empty-batch return, provisioning, ids and metadata
AddBegin(codebase_id, documents, replace_existing, fault) ==
    /\ pc = "idle"
    /\ IF documents = <<>>
       THEN /\ UNCHANGED <<clients, collections, disk>>
            /\ call' = [NoCall EXCEPT !.op = "add", !.id = codebase_id,
                                      !.documents = documents,
                                      !.replace_existing = replace_existing]
            /\ result' = Ret("add", codebase_id, "ok")
            /\ pc' = "idle"
       ELSE LET r == get_client_and_collection(codebase_id, fault)
            IN  /\ clients' = r.clients
                /\ collections' = r.collections
                /\ disk' = r.disk
                /\ call' = [NoCall EXCEPT !.op = "add", !.id = codebase_id,
                                          !.documents = documents,
                                          !.replace_existing = replace_existing,
                                          !.metadata =
                                              synthesized(codebase_id, Len(documents))]
                /\ IF r.raised
                   THEN /\ result' = Ret("add", codebase_id, "raise")
                        /\ pc' = "idle"
                   ELSE /\ result' = Pending
                        /\ pc' = IF replace_existing THEN "add_clear" ELSE "add_insert"
    /\ UNCHANGED processor_vars
    /\ UNCHANGED manager_vars

\* lines 66-80 when the caller passes a metadata list
AddBeginMetadata(codebase_id, documents, metadata, replace_existing) ==
    /\ pc = "idle"
    /\ IF documents = <<>>
       THEN /\ UNCHANGED <<clients, collections, disk>>
            /\ call' = [NoCall EXCEPT !.op = "add", !.id = codebase_id,
                                      !.documents = documents,
                                      !.replace_existing = replace_existing,
                                      !.metadata = metadata]
            /\ result' = Ret("add", codebase_id, "ok")
            /\ pc' = "idle"
       ELSE LET r == get_client_and_collection(codebase_id, "none")
            IN  /\ clients' = r.clients
                /\ collections' = r.collections
                /\ disk' = r.disk
                /\ call' = [NoCall EXCEPT !.op = "add", !.id = codebase_id,
                                          !.documents = documents,
                                          !.replace_existing = replace_existing,
                                          !.metadata =
                                              with_codebase_id(metadata, codebase_id)]
                /\ result' = Pending
                /\ pc' = IF replace_existing THEN "add_clear" ELSE "add_insert"
    /\ UNCHANGED processor_vars
    /\ UNCHANGED manager_vars

\* lines 83-92: clear the tenant's stored documents; a failure is only logged.
\* call.removed is len(existing_ids) once the phase has completed, else -1.
AddClear(fault) ==
    /\ pc = "add_clear"
    /\ LET h == collections[call.id]
           existing_ids == coll_get_ids(disk[h], call.id)
       IN  IF fault = "get" \/ (fault = "delete" /\ existing_ids # {})
           THEN /\ UNCHANGED disk
                /\ call' = call
           ELSE /\ disk' = [disk EXCEPT ![h] = coll_delete(@, existing_ids)]
                /\ call' = [call EXCEPT !.removed = Cardinality(existing_ids)]
    /\ pc' = "add_insert"
    /\ UNCHANGED <<clients, collections, result>>
    /\ UNCHANGED processor_vars
    /\ UNCHANGED manager_vars

\* variant: a failed insert is logged and not re-raised
AddInsert_swallow(fault) ==
    /\ pc = "add_insert"
    /\ LET h == collections[call.id]
       IN  IF fault = "add" \/ Len(call.metadata) # Len(call.documents)
           THEN /\ UNCHANGED disk
                /\ result' = Ret("add", call.id, "ok")
           ELSE /\ disk' = [disk EXCEPT ![h] =
                               coll_add(@, NewDocsWith(call.id, call.documents,
                                                       call.metadata))]
                /\ result' = Ret("add", call.id, "ok")
    /\ pc' = "idle"
    /\ UNCHANGED <<clients, collections, call>>
    /\ UNCHANGED processor_vars
    /\ UNCHANGED manager_vars

\* lines 94-105: insert the batch; a failure is re-raised.  collection.add
\* raises, before it stores anything, when ids, documents and metadatas
\* are not of one length.
AddInsert(fault) ==
    /\ pc = "add_insert"
    /\ LET h == collections[call.id]
       IN  IF fault = "add" \/ Len(call.metadata) # Len(call.documents)
           THEN /\ UNCHANGED disk
                /\ result' = Ret("add", call.id, "raise")
           ELSE /\ disk' = [disk EXCEPT ![h] =
                               coll_add(@, NewDocsWith(call.id, call.documents,
                                                       call.metadata))]
                /\ result' = Ret("add", call.id, "ok")
    /\ pc' = "idle"
    /\ UNCHANGED <<clients, collections, call>>
    /\ UNCHANGED processor_vars
    /\ UNCHANGED manager_vars

----------------------------------------------------------------------------
(* query_codebase, lines 107-120 *)

\* variant: looks the collection up with get-or-create
query_codebase_get_or_create(codebase_id, n_results) ==
    /\ pc = "idle"
    /\ LET r == get_client_and_collection(codebase_id, "none")
       IN  /\ clients' = r.clients
           /\ collections' = r.collections
           /\ disk' = r.disk
           /\ IF r.raised
              THEN result' = Ret("query", codebase_id, "raise")
              ELSE \E S \in coll_query(r.disk[r.collections[codebase_id]], n_results) :
                      result' = [Ret("query", codebase_id, "ok") EXCEPT !.docs = S]
    /\ call' = [NoCall EXCEPT !.op = "query", !.id = codebase_id]
    /\ pc' = "idle"
    /\ UNCHANGED processor_vars
    /\ UNCHANGED manager_vars

query_codebase(codebase_id, n_results) ==
    /\ pc = "idle"
    /\ IF collections[codebase_id] = NoHandle
       THEN result' = Ret("query", codebase_id, "raise")
       ELSE \E S \in coll_query(disk[collections[codebase_id]], n_results) :
               result' = [Ret("query", codebase_id, "ok") EXCEPT !.docs = S]
    /\ call' = [NoCall EXCEPT !.op = "query", !.id = codebase_id]
    /\ pc' = "idle"
    /\ UNCHANGED <<clients, collections, disk>>
    /\ UNCHANGED processor_vars
    /\ UNCHANGED manager_vars

----------------------------------------------------------------------------
(* get_codebase_stats, lines 228-241 *)

StatsFaults == ProvisionFaults \cup {"count"}

get_codebase_stats(codebase_id, fault) ==
    /\ pc = "idle"
    /\ LET r == IF collections[codebase_id] = NoHandle
                THEN get_client_and_collection(codebase_id, fault)
                ELSE [clients |-> clients, collections |-> collections,
                      disk |-> disk, raised |-> FALSE]
       IN  /\ clients' = r.clients
           /\ collections' = r.collections
           /\ disk' = r.disk
           /\ IF r.raised \/ fault = "count"
              THEN result' = [Ret("stats", codebase_id, "ok") EXCEPT
                                 !.document_count = 0, !.exists = FALSE]
              ELSE result' = [Ret("stats", codebase_id, "ok") EXCEPT
                                 !.document_count =
                                     coll_count(r.disk[r.collections[codebase_id]]),
                                 !.exists = TRUE]
    /\ call' = [NoCall EXCEPT !.op = "stats", !.id = codebase_id]
    /\ pc' = "idle"
    /\ UNCHANGED processor_vars
    /\ UNCHANGED manager_vars

----------------------------------------------------------------------------
(* delete_codebase, lines 122-148, and _force_remove_directory, 150-210 *)

\* variant: the collection handle stays cached while the directory is reclaimed
delete_codebase_keep_collection(codebase_id) ==
    /\ pc = "idle"
    /\ clients' = [clients EXCEPT ![codebase_id] = NoHandle]
    /\ collections' = collections
    /\ call' = [NoCall EXCEPT !.op = "delete", !.id = codebase_id,
                              !.orig = disk[get_db_path(codebase_id)].files]
    /\ IF disk[get_db_path(codebase_id)].exists
       THEN /\ pc' = "rmtree"
            /\ result' = Pending
       ELSE /\ pc' = "idle"
            /\ result' = Ret("delete", codebase_id, "ok")
    /\ UNCHANGED disk
    /\ UNCHANGED processor_vars
    /\ UNCHANGED manager_vars

\* lines 128-147: evict both handles, then reclaim the directory if it exists
delete_codebase(codebase_id) ==
    /\ pc = "idle"
    /\ clients' = [clients EXCEPT ![codebase_id] = NoHandle]
    /\ collections' = [collections EXCEPT ![codebase_id] = NoHandle]
    /\ call' = [NoCall EXCEPT !.op = "delete", !.id = codebase_id,
                              !.orig = disk[get_db_path(codebase_id)].files]
    /\ IF disk[get_db_path(codebase_id)].exists
       THEN /\ pc' = "rmtree"
            /\ result' = Pending
       ELSE /\ pc' = "idle"
            /\ result' = Ret("delete", codebase_id, "ok")
    /\ UNCHANGED disk
    /\ UNCHANGED processor_vars
    /\ UNCHANGED manager_vars

\* line 167: shutil.rmtree(path).  removed = Files and ok: the directory is
\* gone; otherwise it raised after unlinking the entries in removed.
force_remove_rmtree(ok, removed) ==
    /\ pc = "rmtree"
    /\ LET path == get_db_path(call.id)
       IN  IF ok
           THEN /\ disk' = [disk EXCEPT ![path] = NoDir]
                /\ pc' = "idle"
                /\ result' = Ret("delete", call.id, "ok")
           ELSE /\ disk' = [disk EXCEPT ![path] = rmtree_partial(@, removed)]
                /\ pc' = IF call.attempt < max_retries - 1 THEN "retry" ELSE "rename"
                /\ result' = result
    /\ UNCHANGED <<clients, collections, call>>
    /\ UNCHANGED processor_vars
    /\ UNCHANGED manager_vars

\* variant: the wait before the retry doubles with every attempt
force_remove_retry_backoff(ok, removed) ==
    /\ pc = "retry"
    /\ LET path == get_db_path(call.id)
       IN  IF ok
           THEN /\ disk' = [disk EXCEPT ![path] = NoDir]
                /\ pc' = "idle"
                /\ result' = Ret("delete", call.id, "ok")
                /\ call' = [call EXCEPT !.slept = @ \o <<2 ^ call.attempt>>]
           ELSE /\ disk' = [disk EXCEPT ![path] = rmtree_partial(@, removed)]
                /\ pc' = "rmtree"
                /\ result' = result
                /\ call' = [call EXCEPT !.attempt = @ + 1,
                                        !.slept = @ \o <<2 ^ call.attempt>>]
    /\ UNCHANGED <<clients, collections>>
    /\ UNCHANGED processor_vars
    /\ UNCHANGED manager_vars

\* lines 174-201: chmod walk, time.sleep(1.0), shutil.rmtree(path,
\* onerror=...); on failure time.sleep(2.0) and the loop continues with the
\* next attempt.  call.slept lists the seconds slept so far.
force_remove_retry(ok, removed) ==
    /\ pc = "retry"
    /\ LET path == get_db_path(call.id)
       IN  IF ok
           THEN /\ disk' = [disk EXCEPT ![path] = NoDir]
                /\ pc' = "idle"
                /\ result' = Ret("delete", call.id, "ok")
                /\ call' = [call EXCEPT !.slept = @ \o <<1>>]
           ELSE /\ disk' = [disk EXCEPT ![path] = rmtree_partial(@, removed)]
                /\ pc' = "rmtree"
                /\ result' = result
                /\ call' = [call EXCEPT !.attempt = @ + 1,
                                        !.slept = @ \o <<1, 2>>]
    /\ UNCHANGED <<clients, collections>>
    /\ UNCHANGED processor_vars
    /\ UNCHANGED manager_vars

\* lines 203-210: os.rename(path, backup_path); a failure is re-raised
force_remove_rename(ok, ts) ==
    /\ pc = "rename"
    /\ LET path == get_db_path(call.id)
           backup == backup_path(path, ts)
       IN  IF ok /\ disk[backup].files = {}
           THEN /\ disk' = [disk EXCEPT ![backup] = relocated(disk[path]), ![path] = NoDir]
                /\ call' = [call EXCEPT !.backup = backup]
                /\ result' = Ret("delete", call.id, "ok")
           ELSE /\ disk' = disk
                /\ call' = call
                /\ result' = Ret("delete", call.id, "raise")
    /\ pc' = "idle"
    /\ UNCHANGED <<clients, collections>>
    /\ UNCHANGED processor_vars
    /\ UNCHANGED manager_vars

----------------------------------------------------------------------------
(* The cleanup utility, src/cleanup_chromadb.py: cleanup_codebase, lines    *)
(* 145-169, and force_remove_directory, lines 72-143.  It runs as a process *)
(* of its own over the same base directory, so it never touches the caches. *)

cleanup_max_retries == 5   \* force_remove_directory

\* lines 147-169: the directory must exist and the operator must answer "y"
cleanup_codebase(codebase_id, confirmed) ==
    /\ pc = "idle"
    /\ call' = [NoCall EXCEPT !.op = "cleanup", !.id = codebase_id,
                              !.orig = disk[get_db_path(codebase_id)].files]
    /\ IF disk[get_db_path(codebase_id)].exists /\ confirmed
       THEN /\ pc' = "cleanup_rmtree"
            /\ result' = Pending
       ELSE /\ pc' = "idle"
            /\ result' = Ret("cleanup", codebase_id, "false")
    /\ UNCHANGED <<clients, collections, disk>>
    /\ UNCHANGED processor_vars
    /\ UNCHANGED manager_vars

\* line 88: shutil.rmtree(path); return True
cleanup_rmtree(ok, removed) ==
    /\ pc = "cleanup_rmtree"
    /\ LET path == get_db_path(call.id)
       IN  IF ok
           THEN /\ disk' = [disk EXCEPT ![path] = NoDir]
                /\ pc' = "idle"
                /\ result' = Ret("cleanup", call.id, "true")
           ELSE /\ disk' = [disk EXCEPT ![path] = rmtree_partial(@, removed)]
                /\ pc' = IF call.attempt < cleanup_max_retries - 1
                         THEN "cleanup_retry" ELSE "cleanup_rename"
                /\ result' = result
    /\ UNCHANGED <<clients, collections, call>>
    /\ UNCHANGED processor_vars
    /\ UNCHANGED manager_vars

\* variant: the loop never moves on to the next attempt
cleanup_retry_stuck(ok, removed) ==
    /\ pc = "cleanup_retry"
    /\ LET path == get_db_path(call.id)
       IN  IF ok
           THEN /\ disk' = [disk EXCEPT ![path] = NoDir]
                /\ pc' = "idle"
                /\ result' = Ret("cleanup", call.id, "true")
           ELSE /\ disk' = [disk EXCEPT ![path] = rmtree_partial(@, removed)]
                /\ pc' = "cleanup_rmtree"
                /\ result' = result
    /\ UNCHANGED <<clients, collections, call>>
    /\ UNCHANGED processor_vars
    /\ UNCHANGED manager_vars

\* lines 96-130: chmod walk, sleep(2 ** attempt), rmtree(path, onerror=...);
\* on failure the loop continues with the next attempt
cleanup_retry(ok, removed) ==
    /\ pc = "cleanup_retry"
    /\ LET path == get_db_path(call.id)
       IN  IF ok
           THEN /\ disk' = [disk EXCEPT ![path] = NoDir]
                /\ pc' = "idle"
                /\ result' = Ret("cleanup", call.id, "true")
                /\ call' = [call EXCEPT !.slept = @ \o <<2 ^ call.attempt>>]
           ELSE /\ disk' = [disk EXCEPT ![path] = rmtree_partial(@, removed)]
                /\ pc' = "cleanup_rmtree"
                /\ result' = result
                /\ call' = [call EXCEPT !.attempt = @ + 1,
                                        !.slept = @ \o <<2 ^ call.attempt>>]
    /\ UNCHANGED <<clients, collections>>
    /\ UNCHANGED processor_vars
    /\ UNCHANGED manager_vars

\* lines 132-141: path.rename(backup_path); return True, or False on failure
cleanup_rename(ok, ts) ==
    /\ pc = "cleanup_rename"
    /\ LET path == get_db_path(call.id)
           backup == backup_path(path, ts)
       IN  IF ok /\ disk[backup].files = {}
           THEN /\ disk' = [disk EXCEPT ![backup] = relocated(disk[path]), ![path] = NoDir]
                /\ call' = [call EXCEPT !.backup = backup]
                /\ result' = Ret("cleanup", call.id, "true")
           ELSE /\ disk' = disk
                /\ call' = call
                /\ result' = Ret("cleanup", call.id, "false")
    /\ pc' = "idle"
    /\ UNCHANGED <<clients, collections>>
    /\ UNCHANGED processor_vars
    /\ UNCHANGED manager_vars

----------------------------------------------------------------------------
(* list_codebases, lines 212-226 *)

\* item.startswith("codebase_") and os.path.isdir(...)
IsCodebaseItem(item) ==
    /\ Len(item) >= 2
    /\ item[1] = "codebase"
    /\ disk[item].exists

\* the items whose int(item.split("_")[1]) is codebase_id
ItemsOf(codebase_id) ==
    {item \in AllNames : /\ IsCodebaseItem(item)
                         /\ IsNumeral(item[2])
                         /\ int(item[2]) = codebase_id}

RECURSIVE Repeat(_, _)
Repeat(x, n) == IF n = 0 THEN <<>> ELSE <<x>> \o Repeat(x, n - 1)

\* sorted(codebase_ids): every id once per matching item, ascending
RECURSIVE SortedIds(_)
SortedIds(k) ==
    IF k > 9 THEN <<>>
    ELSE Repeat(k, Cardinality(ItemsOf(k))) \o SortedIds(k + 1)

list_codebases ==
    /\ pc = "idle"
    /\ result' = [Ret("list", 0, "ok") EXCEPT !.ids = SortedIds(0)]
    /\ call' = [NoCall EXCEPT !.op = "list"]
    /\ pc' = "idle"
    /\ UNCHANGED <<clients, collections, disk>>
    /\ UNCHANGED processor_vars
    /\ UNCHANGED manager_vars

Listed(r) == {r.ids[i] : i \in 1..Len(r.ids)}

----------------------------------------------------------------------------

(* The store under every operation and every failure of the storage      *)
(* engine; a failing rmtree here fails before it has unlinked anything.     *)
Next ==
    \/ \E t \in Tenants, f \in ProvisionFaults : Provision(t, f)
    \/ \E t \in Tenants, rep \in BOOLEAN, f \in {"none", "collection"} :
       \E X \in BatchesFor(t) :
          AddBegin(t, X, rep, f)
    \/ \E f \in {"none", "get", "delete"} : AddClear(f)
    \/ \E f \in {"none", "add"} : AddInsert(f)
    \/ \E t \in Tenants, n \in {1, n_results_default} : query_codebase(t, n)
    \/ \E t \in Tenants, f \in StatsFaults : get_codebase_stats(t, f)
    \/ \E t \in Tenants : delete_codebase(t)
    \/ \E ok \in BOOLEAN : force_remove_rmtree(ok, {})
    \/ \E ok \in BOOLEAN : force_remove_retry(ok, {})
    \/ \E ok \in BOOLEAN : force_remove_rename(ok, 1)
    \/ list_codebases

Spec == Init /\ [][Next]_vars

(* The reclaimer under every pattern of partial deletes and every           *)
(* timestamp, over tenants populated by plain successful adds.              *)
NextReclaim ==
    \/ \E t \in Tenants : Provision(t, "none")
    \/ \E t \in Tenants : AddBegin(t, <<"a">>, TRUE, "none")
    \/ AddClear("none")
    \/ AddInsert("none")
    \/ \E t \in Tenants : get_codebase_stats(t, "none")
    \/ \E t \in Tenants : delete_codebase(t)
    \/ \E ok \in BOOLEAN, S \in SUBSET Files : force_remove_rmtree(ok, S)
    \/ \E ok \in BOOLEAN, S \in SUBSET Files : force_remove_retry(ok, S)
    \/ \E ok \in BOOLEAN, ts \in Timestamps : force_remove_rename(ok, ts)
    \/ list_codebases

SpecReclaim == Init /\ [][NextReclaim]_vars

(* add_documents with and without a metadata list from the caller.  The    *)
(* lists are the ones the manager builds, one entry per chunk with the      *)
(* chunk's ordinal, and such lists with an entry missing or one too many.   *)
MetadataLists ==
    {[i \in 1..n |-> [chunk_id |-> i - 1, codebase_id |-> 0]] : n \in 0..(MaxDocs + 1)}

NextMetadata ==
    \/ \E t \in Tenants, rep \in BOOLEAN : \E X \in BatchesFor(t) :
          AddBegin(t, X, rep, "none")
    \/ \E t \in Tenants, rep \in BOOLEAN : \E X \in BatchesFor(t), M \in MetadataLists :
          AddBeginMetadata(t, X, M, rep)
    \/ AddClear("none")
    \/ AddInsert("none")

SpecMetadata == Init /\ [][NextMetadata]_vars

(* Both reclaimers, the store's and the cleanup utility's, under every     *)
(* pattern of failing deletes, over the directories an earlier process      *)
(* left behind.  Every call of rmtree, sleep and rename returns, so a       *)
(* reclaimer that has been entered keeps taking steps.                      *)
ReclaimStep ==
    \/ \E ok \in BOOLEAN, S \in SUBSET Files : force_remove_rmtree(ok, S)
    \/ \E ok \in BOOLEAN, S \in SUBSET Files : force_remove_retry(ok, S)
    \/ \E ok \in BOOLEAN, ts \in Timestamps : force_remove_rename(ok, ts)
    \/ \E ok \in BOOLEAN, S \in SUBSET Files : cleanup_rmtree(ok, S)
    \/ \E ok \in BOOLEAN, S \in SUBSET Files : cleanup_retry(ok, S)
    \/ \E ok \in BOOLEAN, ts \in Timestamps : cleanup_rename(ok, ts)

NextReclaimers ==
    \/ \E t \in Tenants : delete_codebase(t)
    \/ \E t \in Tenants, confirmed \in BOOLEAN : cleanup_codebase(t, confirmed)
    \/ ReclaimStep

SpecReclaimers == Init /\ [][NextReclaimers]_vars /\ WF_vars(ReclaimStep)

----------------------------------------------------------------------------
(* get_client_and_collection, lines 28-40, under two callers.  The method   *)
(* takes no lock, so the callers interleave at its statements.  Here pc and *)
(* call are indexed by caller, a handle is the object a caller created      *)
(* (its path and its creator; a collection also its client), and result     *)
(* keeps what each caller was handed and every handle ever created.         *)

Callers == {1, 2}

NoRet == [id |-> 0, status |-> "none", client |-> NoHandle, collection |-> NoHandle]

InitCallers ==
    /\ clients = [t \in Tenants |-> NoHandle]
    /\ collections = [t \in Tenants |-> NoHandle]
    /\ disk \in {f \in [AllNames -> UNION {InitDirs(t) : t \in Tenants}] :
                    /\ \A t \in Tenants : f[get_db_path(t)] \in InitDirs(t)
                    /\ \A n \in AllNames :
                          (\A t \in Tenants : n # get_db_path(t)) => f[n] = NoDir}
    /\ pc = [c \in Callers |-> "idle"]
    /\ call = [c \in Callers |-> 0]
    /\ result = [ret |-> [c \in Callers |-> NoRet], made_clients |-> {},
                 made_collections |-> {}]
    /\ temp_dir = None
    /\ tmp = [d \in TempNames |-> FALSE]
    /\ db = NoRows
    /\ repos = [path \in Paths |-> None]
    /\ current_codebase_id = NoCodebase

\* a caller enters get_client_and_collection(codebase_id)
gcc_call(c, codebase_id) ==
    /\ pc[c] = "idle"
    /\ pc' = [pc EXCEPT ![c] = "check"]
    /\ call' = [call EXCEPT ![c] = codebase_id]
    /\ result' = [result EXCEPT !.ret[c] = NoRet]
    /\ UNCHANGED <<clients, collections, disk>>
    /\ UNCHANGED processor_vars
    /\ UNCHANGED manager_vars

\* line 30: if codebase_id not in self.clients
gcc_check(c) ==
    /\ pc[c] = "check"
    /\ pc' = [pc EXCEPT ![c] = IF clients[call[c]] = NoHandle
                               THEN "makedirs" ELSE "return"]
    /\ UNCHANGED <<clients, collections, disk, call, result>>
    /\ UNCHANGED processor_vars
    /\ UNCHANGED manager_vars

\* lines 31-32: os.makedirs(db_path, exist_ok=True)
gcc_makedirs(c) ==
    /\ pc[c] = "makedirs"
    /\ disk' = [disk EXCEPT ![get_db_path(call[c])] = makedirs(@)]
    /\ pc' = [pc EXCEPT ![c] = "client"]
    /\ UNCHANGED <<clients, collections, call, result>>
    /\ UNCHANGED processor_vars
    /\ UNCHANGED manager_vars

\* line 34: self.clients[codebase_id] = chromadb.PersistentClient(path=db_path)
gcc_client(c) ==
    /\ pc[c] = "client"
    /\ LET db_path == get_db_path(call[c])
           client == [path |-> db_path, by |-> c]
       IN  /\ disk' = [disk EXCEPT ![db_path] = PersistentClient(@)]
           /\ clients' = [clients EXCEPT ![call[c]] = client]
           /\ result' = [result EXCEPT !.made_clients = @ \cup {client}]
    /\ pc' = [pc EXCEPT ![c] = "collection"]
    /\ UNCHANGED <<collections, call>>
    /\ UNCHANGED processor_vars
    /\ UNCHANGED manager_vars

\* lines 35-38: self.collections[codebase_id] =
\*     self.clients[codebase_id].get_or_create_collection(...)
gcc_collection(c) ==
    /\ pc[c] = "collection"
    /\ LET collection == [path |-> get_db_path(call[c]), by |-> c,
                          client |-> clients[call[c]]]
       IN  /\ collections' = [collections EXCEPT ![call[c]] = collection]
           /\ result' = [result EXCEPT !.made_collections = @ \cup {collection}]
    /\ pc' = [pc EXCEPT ![c] = "return"]
    /\ UNCHANGED <<clients, disk, call>>
    /\ UNCHANGED processor_vars
    /\ UNCHANGED manager_vars

\* line 40: return self.clients[codebase_id], self.collections[codebase_id]
gcc_return(c) ==
    /\ pc[c] = "return"
    /\ result' = [result EXCEPT !.ret[c] =
                      [id |-> call[c],
                       status |-> IF collections[call[c]] = NoHandle
                                  THEN "raise" ELSE "ok",
                       client |-> clients[call[c]],
                       collection |-> collections[call[c]]]]
    /\ pc' = [pc EXCEPT ![c] = "idle"]
    /\ UNCHANGED <<clients, collections, disk, call>>
    /\ UNCHANGED processor_vars
    /\ UNCHANGED manager_vars

NextCallers ==
    \/ \E c \in Callers, t \in Tenants : gcc_call(c, t)
    \/ \E c \in Callers : gcc_check(c)
    \/ \E c \in Callers : gcc_makedirs(c)
    \/ \E c \in Callers : gcc_client(c)
    \/ \E c \in Callers : gcc_collection(c)
    \/ \E c \in Callers : gcc_return(c)

SpecCallers == InitCallers /\ [][NextCallers]_vars

----------------------------------------------------------------------------
(* chunk_code, src/chunking.py lines 5-14.  A text is the sequence of its   *)
(* lines, which is what text.split("\n") makes of it and what "\n".join     *)
(* maps back; a line is 0 when it is blank and its own (1-based) position   *)
(* in the text otherwise, so that a chunk shows where it was cut from.      *)

CHUNK_SIZE == 40      \* config.py
CHUNK_OVERLAP == 10   \* config.py

\* the settings of config.py that are tried: the shipped one, one with
\* CHUNK_OVERLAP = CHUNK_SIZE, one with CHUNK_OVERLAP > CHUNK_SIZE and one
\* with CHUNK_OVERLAP = CHUNK_SIZE - 1, where the start advances by one line
Configs ==
    {[CHUNK_SIZE |-> CHUNK_SIZE, CHUNK_OVERLAP |-> CHUNK_OVERLAP],
     [CHUNK_SIZE |-> CHUNK_SIZE, CHUNK_OVERLAP |-> CHUNK_SIZE],
     [CHUNK_SIZE |-> CHUNK_OVERLAP, CHUNK_OVERLAP |-> CHUNK_SIZE],
     [CHUNK_SIZE |-> CHUNK_OVERLAP + 1, CHUNK_OVERLAP |-> CHUNK_OVERLAP]}

MaxLines == 100       \* longest text

\* the texts: no line blank, every line blank, one line not blank
TextLines ==
    {[i \in 1..n |-> i] : n \in 1..MaxLines}
        \cup {[i \in 1..n |-> 0] : n \in 1..MaxLines}
        \cup UNION {{[i \in 1..n |-> IF i = p THEN i ELSE 0] : p \in 1..n} :
                       n \in 1..MaxLines}

\* range(start, stop, step) for step # 0
RECURSIVE range(_, _, _)
range(start, stop, step) ==
    IF (step > 0 /\ start < stop) \/ (step < 0 /\ start > stop)
    THEN <<start>> \o range(start + step, stop, step)
    ELSE <<>>

\* variant: the window is one line short
slice_short(lines, i, j) == SubSeq(lines, i + 1, Min(j - 1, Len(lines)))

\* lines[i:j] for 0 <= i
slice(lines, i, j) == SubSeq(lines, i + 1, Min(j, Len(lines)))

\* variant: only the first line of the window is looked at
NotBlank_first_line(chunk) == chunk # <<>> /\ chunk[1] # 0

\* chunk.strip() is not empty
NotBlank(chunk) == \E k \in 1..Len(chunk) : chunk[k] # 0

\* the body of the for loop over the start indices in starts
RECURSIVE chunks_of(_, _, _)
chunks_of(lines, starts, size) ==
    IF starts = <<>> THEN <<>>
    ELSE LET chunk == slice(lines, Head(starts), Head(starts) + size)
         IN  (IF NotBlank(chunk) THEN <<chunk>> ELSE <<>>)
                 \o chunks_of(lines, Tail(starts), size)

\* variant: the start index advances by the whole window
chunk_code_no_overlap(lines, size, overlap) ==
    IF size - overlap = 0
    THEN [raised |-> TRUE, chunks |-> <<>>]
    ELSE [raised |-> FALSE,
          chunks |-> chunks_of(lines, range(0, Len(lines), size), size)]

\* range() raises ValueError when its step is zero
chunk_code(lines, size, overlap) ==
    IF size - overlap = 0
    THEN [raised |-> TRUE, chunks |-> <<>>]
    ELSE [raised |-> FALSE,
          chunks |-> chunks_of(lines, range(0, Len(lines), size - overlap), size)]

InitChunk ==
    /\ clients = [t \in Tenants |-> NoHandle]
    /\ collections = [t \in Tenants |-> NoHandle]
    /\ disk = [n \in AllNames |-> NoDir]
    /\ pc = "idle"
    /\ call \in {[op |-> "chunk_code", lines |-> L, config |-> c] :
                    L \in TextLines, c \in Configs}
    /\ result = Pending
    /\ temp_dir = None
    /\ tmp = [d \in TempNames |-> FALSE]
    /\ db = NoRows
    /\ repos = [path \in Paths |-> None]
    /\ current_codebase_id = NoCodebase

\* one call of chunk_code(text) under the configuration of the run
ChunkCode ==
    /\ pc = "idle"
    /\ LET r == chunk_code(call.lines, call.config.CHUNK_SIZE,
                           call.config.CHUNK_OVERLAP)
       IN  result' = [op |-> "chunk_code",
                      status |-> IF r.raised THEN "raise" ELSE "ok",
                      chunks |-> r.chunks]
    /\ pc' = "done"
    /\ UNCHANGED <<clients, collections, disk, call>>
    /\ UNCHANGED processor_vars
    /\ UNCHANGED manager_vars

SpecChunk == InitChunk /\ [][ChunkCode]_vars

----------------------------------------------------------------------------
(* Ingest: CodebaseManager._process_codebase and _safe_process_codebase     *)
(* (src/codebase_manager.py) and TempRepositoryProcessor.process_repository *)
(* with _cleanup (src/temp_processor.py).  A repository is the list of the  *)
(* files that get_source_files finds in it; the content of a file is the    *)
(* sequence of its lines, <<>> for the empty string.                        *)

MaxRepoFiles == 2    \* source files in a repository

\* an empty file, a file of white space, a file with one line of code
FileContents == {<<>>, <<0>>, <<1>>}

RepoFiles ==
    {[readable |-> FALSE, content |-> <<1>>]}
        \cup {[readable |-> TRUE, content |-> x] : x \in FileContents}

Repos == UNION {[1..n -> RepoFiles] : n \in 0..MaxRepoFiles}

\* repo_loader.read_file: the content, "" when reading raises
read_file(file) == IF file.readable THEN file.content ELSE <<>>

\* text.split("\n"): the empty string has one (empty) line
split(content) == IF content = <<>> THEN <<0>> ELSE content

\* chunk_code(content) under the shipped configuration
chunk_file(content) == chunk_code(split(content), CHUNK_SIZE, CHUNK_OVERLAP).chunks

\* the placeholder sentence that stands for an empty repository
placeholder == <<-1>>

\* codebase_manager.py lines 115-133: files whose content.strip() is empty are skipped
RECURSIVE process_chunks(_)
process_chunks(files) ==
    IF files = <<>> THEN <<>>
    ELSE LET content == read_file(Head(files))
         IN  (IF NotBlank(content) THEN chunk_file(content) ELSE <<>>)
                 \o process_chunks(Tail(files))

\* codebase_manager.py lines 377-381 and temp_processor.py lines 55-73:
\* files whose content is the empty string are skipped
RECURSIVE safe_chunks(_)
safe_chunks(files) ==
    IF files = <<>> THEN <<>>
    ELSE LET content == read_file(Head(files))
         IN  (IF content # <<>> THEN chunk_file(content) ELSE <<>>)
                 \o safe_chunks(Tail(files))

\* add_documents (lines 64-105) when neither the engine nor the disk fails
add_documents(codebase_id, documents, replace_existing) ==
    IF documents = <<>>
    THEN [clients |-> clients, collections |-> collections, disk |-> disk]
    ELSE LET r == get_client_and_collection(codebase_id, "none")
             db_path == get_db_path(codebase_id)
             cleared == IF replace_existing
                        THEN [r.disk EXCEPT ![db_path] =
                                 coll_delete(@, coll_get_ids(@, codebase_id))]
                        ELSE r.disk
         IN  [clients |-> r.clients, collections |-> r.collections,
              disk |-> [cleared EXCEPT ![db_path] =
                           coll_add(@, NewDocs(codebase_id, documents))]]

\* add_documents (lines 64-105) where get_embedding (line 73, fault "embed")
\* or collection.add (line 96, fault "store") may raise: the first leaves
\* the tenant provisioned, the second also cleared
add_documents_or_raise(codebase_id, documents, replace_existing, fault) ==
    IF documents = <<>>
    THEN [clients |-> clients, collections |-> collections, disk |-> disk,
          raised |-> FALSE]
    ELSE LET r == get_client_and_collection(codebase_id, "none")
             db_path == get_db_path(codebase_id)
             cleared == IF replace_existing
                        THEN [r.disk EXCEPT ![db_path] =
                                 coll_delete(@, coll_get_ids(@, codebase_id))]
                        ELSE r.disk
             added == add_documents(codebase_id, documents, replace_existing)
         IN  CASE fault = "embed" ->
                    [clients |-> r.clients, collections |-> r.collections,
                     disk |-> r.disk, raised |-> TRUE]
               [] fault = "store" ->
                    [clients |-> r.clients, collections |-> r.collections,
                     disk |-> cleared, raised |-> TRUE]
               [] OTHER ->
                    [clients |-> added.clients, collections |-> added.collections,
                     disk |-> added.disk, raised |-> FALSE]

\* CodebaseDatabase.update_codebase_stats: UPDATE ... WHERE id = ?
update_codebase_stats(d, codebase_id, file_count, chunk_count) ==
    IF d.codebases[codebase_id] = None THEN d
    ELSE [d EXCEPT !.codebases[codebase_id].file_count = file_count,
                   !.codebases[codebase_id].chunk_count = chunk_count]

\* what a processing leaves: store, catalog, whether it raised, whether
\* add_documents was called and with which chunks, and the counts given to
\* update_codebase_stats
Processed(a, d, raised, stored, chunks, stats) ==
    [clients |-> a.clients, collections |-> a.collections, disk |-> a.disk,
     db |-> d, raised |-> raised, stored |-> stored, chunks |-> chunks,
     stats |-> stats]

\* _process_codebase, lines 99-147, on catalog d; fault "stats" is a
\* failure of update_codebase_stats
processed(d, codebase_id, files, fault) ==
    IF files = <<>>
    THEN \* lines 107-109
         Processed([clients |-> clients, collections |-> collections, disk |-> disk],
                   d, FALSE, FALSE, <<>>, <<>>)
    ELSE LET all_chunks == process_chunks(files)
             handed == IF all_chunks # <<>> THEN all_chunks ELSE <<placeholder>>
             a == add_documents_or_raise(codebase_id, handed, TRUE, fault)
             stats == <<Len(files), Len(all_chunks)>>
         IN  IF a.raised THEN Processed(a, d, TRUE, FALSE, handed, <<>>)
             ELSE IF fault = "stats" THEN Processed(a, d, TRUE, TRUE, handed, <<>>)
             ELSE Processed(a, update_codebase_stats(d, codebase_id, stats[1], stats[2]),
                            FALSE, TRUE, handed, stats)

\* _safe_process_codebase, lines 364-391, on catalog d
safe_processed(d, codebase_id, source_files, fault) ==
    LET docs == IF source_files = <<>> THEN <<placeholder>>
                ELSE safe_chunks(source_files)
        a == add_documents_or_raise(codebase_id, docs, TRUE, fault)
        stats == <<Len(source_files), Len(docs)>>
    IN  IF a.raised THEN Processed(a, d, TRUE, FALSE, docs, <<>>)
        ELSE IF fault = "stats" THEN Processed(a, d, TRUE, TRUE, docs, <<>>)
        ELSE Processed(a, update_codebase_stats(d, codebase_id, stats[1], stats[2]),
                       FALSE, TRUE, docs, stats)

Ingestible == {1}    \* the codebase ids that are ingested

NoIngest == [op |-> "none", id |-> 0, files |-> <<>>, dir |-> None,
             raising |-> FALSE, chunks |-> <<>>]

\* the outcome of an ingest: whether add_documents was called and with which
\* chunks (for process_repository: the chunks it returned), and the file and
\* chunk counts given to update_codebase_stats
Ingested(op, id, status, stored, chunks, stats) ==
    [op |-> op, id |-> id, status |-> status, stored |-> stored,
     chunks |-> chunks, stats |-> stats]

InitIngest ==
    /\ clients = [t \in Tenants |-> NoHandle]
    /\ collections = [t \in Tenants |-> NoHandle]
    /\ disk = [n \in AllNames |-> NoDir]
    /\ pc = "idle"
    /\ call = NoIngest
    /\ result = Ingested("none", 0, "pending", FALSE, <<>>, <<>>)
    /\ temp_dir = None
    /\ tmp = [d \in TempNames |-> FALSE]
    /\ db = [codebases |-> [id \in Tenants |->
                                 IF id \in Ingestible
                                 THEN Row("app", "u", local_path_of("app"),
                                          STORAGE_MODE_LOCAL)
                                 ELSE None],
             seq |-> Cardinality(Ingestible)]
    /\ repos = [path \in Paths |-> None]
    /\ current_codebase_id = NoCodebase

\* _process_codebase, lines 99-147, when nothing fails
process_codebase(codebase_id, files) ==
    /\ pc = "idle"
    /\ call' = [NoIngest EXCEPT !.op = "process_codebase", !.id = codebase_id,
                                !.files = files]
    /\ LET r == processed(db, codebase_id, files, "none")
       IN  /\ clients' = r.clients
           /\ collections' = r.collections
           /\ disk' = r.disk
           /\ db' = r.db
           /\ result' = Ingested("process_codebase", codebase_id, "ok", r.stored,
                                 IF r.stored THEN r.chunks ELSE <<>>, r.stats)
    /\ pc' = "idle"
    /\ UNCHANGED processor_vars
    /\ UNCHANGED <<repos, current_codebase_id>>

\* _safe_process_codebase, lines 364-391, when nothing fails
safe_process_codebase(codebase_id, source_files) ==
    /\ pc = "idle"
    /\ call' = [NoIngest EXCEPT !.op = "safe_process_codebase", !.id = codebase_id,
                                !.files = source_files]
    /\ LET r == safe_processed(db, codebase_id, source_files, "none")
       IN  /\ clients' = r.clients
           /\ collections' = r.collections
           /\ disk' = r.disk
           /\ db' = r.db
           /\ result' = Ingested("safe_process_codebase", codebase_id, "ok", TRUE,
                                 r.chunks, r.stats)
    /\ pc' = "idle"
    /\ UNCHANGED processor_vars
    /\ UNCHANGED <<repos, current_codebase_id>>

\* process_repository, line 36: self.temp_dir = tempfile.mkdtemp(...), which
\* draws a name that is not in use, or raises and creates nothing
process_repository(name, files, ok) ==
    /\ pc = "idle"
    /\ ~tmp[name]
    /\ IF ok
       THEN /\ tmp' = [tmp EXCEPT ![name] = TRUE]
            /\ temp_dir' = name
            /\ call' = [NoIngest EXCEPT !.op = "process_repository",
                                        !.files = files, !.dir = name]
            /\ pc' = "clone"
            /\ result' = Ingested("none", 0, "pending", FALSE, <<>>, <<>>)
       ELSE /\ call' = [NoIngest EXCEPT !.op = "process_repository",
                                        !.files = files]
            /\ pc' = "idle"
            /\ result' = Ingested("process_repository", 0, "raise", FALSE,
                                  <<>>, <<>>)
            /\ UNCHANGED processor_vars
    /\ UNCHANGED <<clients, collections, disk>>
    /\ UNCHANGED manager_vars

\* lines 42-43: git.Repo.clone_from and repo.head.commit.hexsha; a failure
\* goes through "except: raise" to the finally clause
tp_clone(ok) ==
    /\ pc = "clone"
    /\ call' = [call EXCEPT !.raising = ~ok]
    /\ pc' = IF ok THEN "process" ELSE "cleanup"
    /\ UNCHANGED <<clients, collections, disk, result, temp_dir, tmp>>
    /\ UNCHANGED manager_vars

\* lines 47-95: read and chunk the files, substitute the placeholder
tp_process(ok) ==
    /\ pc = "process"
    /\ LET chunks == safe_chunks(call.files)
       IN  call' = IF ok
                   THEN [call EXCEPT !.chunks = IF chunks = <<>>
                                                THEN <<placeholder>> ELSE chunks]
                   ELSE [call EXCEPT !.raising = TRUE]
    /\ pc' = "cleanup"
    /\ UNCHANGED <<clients, collections, disk, result, temp_dir, tmp>>
    /\ UNCHANGED manager_vars

\* what process_repository leaves the caller with once _cleanup is done
tp_returned ==
    IF call.raising
    THEN Ingested("process_repository", 0, "raise", FALSE, <<>>, <<>>)
    ELSE Ingested("process_repository", 0, "ok", FALSE, call.chunks, <<>>)

\* _cleanup, lines 106-111: shutil.rmtree(self.temp_dir) when the field is
\* set and the directory exists; the field is reset only inside that branch
tp_cleanup(ok) ==
    /\ pc = "cleanup"
    /\ IF temp_dir # None /\ tmp[temp_dir]
       THEN IF ok
            THEN /\ tmp' = [tmp EXCEPT ![temp_dir] = FALSE]
                 /\ temp_dir' = None
                 /\ pc' = "idle"
                 /\ result' = tp_returned
            ELSE /\ pc' = "cleanup_rename"
                 /\ UNCHANGED <<tmp, temp_dir, result>>
       ELSE /\ pc' = "idle"
            /\ result' = tp_returned
            /\ UNCHANGED <<tmp, temp_dir>>
    /\ UNCHANGED <<clients, collections, disk, call>>
    /\ UNCHANGED manager_vars

\* _cleanup, lines 112-120: os.rename to the "_cleanup_failed" name; a
\* failure is printed only; finally self.temp_dir = None
tp_cleanup_rename(ok) ==
    /\ pc = "cleanup_rename"
    /\ tmp' = IF ok /\ ~tmp[cleanup_failed_name(temp_dir)]
              THEN [tmp EXCEPT ![temp_dir] = FALSE,
                               ![cleanup_failed_name(temp_dir)] = TRUE]
              ELSE tmp
    /\ temp_dir' = None
    /\ pc' = "idle"
    /\ result' = tp_returned
    /\ UNCHANGED <<clients, collections, disk, call>>
    /\ UNCHANGED manager_vars

NextIngest ==
    \/ \E t \in Ingestible, files \in Repos : process_codebase(t, files)
    \/ \E t \in Ingestible, files \in Repos : safe_process_codebase(t, files)
    \/ \E d \in TempDirs, files \in Repos, ok \in BOOLEAN :
          process_repository(d, files, ok)
    \/ \E ok \in BOOLEAN : tp_clone(ok)
    \/ \E ok \in BOOLEAN : tp_process(ok)
    \/ \E ok \in BOOLEAN : tp_cleanup(ok)
    \/ \E ok \in BOOLEAN : tp_cleanup_rename(ok)

SpecIngest == InitIngest /\ [][NextIngest]_vars

----------------------------------------------------------------------------
(* CodebaseManager, src/codebase_manager.py: add_codebase, switch_codebase, *)
(* delete_codebase, refresh_codebase and reprocess_codebase over the        *)
(* catalog, the local repositories and the store.  One caller; a method is  *)
(* one step, except refresh_codebase, whose fall-back to _reclone_codebase  *)
(* is a step of its own.  fault names the call that raises.  Inside a step  *)
(* process_repository makes and removes its temporary directory, and the    *)
(* store's reclaimer either removes the tenant's directory or raises.       *)

\* the repositories that are cloned: no source file, one blank file, one
\* file with a line of code
ManagerRepos ==
    {r \in Repos : /\ Len(r) <= 1
                   /\ \A i \in 1..Len(r) : r[i].readable /\ r[i].content # <<>>}

\* SELECT ... WHERE name = ?: column name is UNIQUE
name_taken(d, name) ==
    \E id \in Tenants : d.codebases[id] # None /\ d.codebases[id].name = name

\* CodebaseDatabase.add_codebase, lines 87-94: the row gets the next id
db_add_codebase(d, row) ==
    [codebases |-> [d.codebases EXCEPT ![d.seq + 1] = row], seq |-> d.seq + 1]

\* CodebaseDatabase.delete_codebase, lines 173-185
db_delete_codebase(d, codebase_id) ==
    [d EXCEPT !.codebases[codebase_id] = None]

\* repo_loader.clone_or_load_repo: an existing repository of the same URL
\* is used as it is, one of another URL is removed; then git clone, which
\* may raise
clone_or_load_repo(rs, repo_url, local_path, files, ok) ==
    IF rs[local_path] # None /\ rs[local_path].origin = repo_url
    THEN [repos |-> rs, raised |-> FALSE]
    ELSE IF ok
         THEN [repos |-> [rs EXCEPT ![local_path] =
                             [origin |-> repo_url, files |-> files]],
               raised |-> FALSE]
         ELSE [repos |-> [rs EXCEPT ![local_path] = None], raised |-> TRUE]

\* what process_repository returns for the files of a clone: the chunks,
\* or the placeholder, and metadata['processed_files']
temp_chunks(files) ==
    LET chunks == safe_chunks(files)
    IN  IF chunks = <<>> THEN <<placeholder>> ELSE chunks

processed_files(files) ==
    Cardinality({i \in 1..Len(files) : read_file(files[i]) # <<>>})

\* MultiCodebaseEmbeddingStore.delete_codebase as one call: both handles
\* evicted, the directory removed unless the reclaimer raises
store_delete_codebase(codebase_id, ok) ==
    LET db_path == get_db_path(codebase_id)
    IN  [clients |-> [clients EXCEPT ![codebase_id] = NoHandle],
         collections |-> [collections EXCEPT ![codebase_id] = NoHandle],
         disk |-> IF ok THEN [disk EXCEPT ![db_path] = NoDir] ELSE disk,
         raised |-> disk[db_path].exists /\ ~ok]

NoManagerCall == [op |-> "none", id |-> 0]

\* the outcome of a method of the manager: what it returned ("raise" when
\* it raised) and the id it concerns (0: none)
Managed(op, id, status) == [op |-> op, id |-> id, status |-> status]

InitManager ==
    /\ clients = [t \in Tenants |-> NoHandle]
    /\ collections = [t \in Tenants |-> NoHandle]
    /\ disk = [n \in AllNames |-> NoDir]
    /\ pc = "idle"
    /\ call = NoManagerCall
    /\ result = Managed("none", 0, "pending")
    /\ temp_dir = None
    /\ tmp = [d \in TempNames |-> FALSE]
    /\ db = NoRows
    /\ repos = [path \in Paths |-> None]
    /\ current_codebase_id = NoCodebase

AddFaults == {"none", "insert", "clone", "embed", "store", "stats"}

\* _add_codebase_local, lines 37-63
add_codebase_local(name, repo_url, files, fault) ==
    LET local_path == local_path_of(name)
        codebase_id == db.seq + 1
        inserted == db_add_codebase(db, Row(name, repo_url, local_path,
                                            STORAGE_MODE_LOCAL))
        c == clone_or_load_repo(repos, repo_url, local_path, files, fault # "clone")
    IN  IF fault = "insert" \/ name_taken(db, name)
        THEN \* line 44 raised: codebase_id is unbound in the cleanup of lines
             \* 57-62, whose bare except swallows the NameError
             /\ UNCHANGED <<clients, collections, disk, db, repos>>
             /\ result' = Managed("add_codebase", 0, "raise")
        ELSE IF c.raised
        THEN \* line 47 raised: delete the row, rmtree(local_path)
             /\ UNCHANGED <<clients, collections, disk>>
             /\ db' = db_delete_codebase(inserted, codebase_id)
             /\ repos' = [c.repos EXCEPT ![local_path] = None]
             /\ result' = Managed("add_codebase", codebase_id, "raise")
        ELSE LET p == processed(inserted, codebase_id, c.repos[local_path].files, fault)
             IN  /\ clients' = p.clients
                 /\ collections' = p.collections
                 /\ disk' = p.disk
                 /\ IF p.raised
                    THEN \* line 50 raised: delete the row, rmtree(local_path)
                         /\ db' = db_delete_codebase(p.db, codebase_id)
                         /\ repos' = [c.repos EXCEPT ![local_path] = None]
                         /\ result' = Managed("add_codebase", codebase_id, "raise")
                    ELSE /\ db' = p.db
                         /\ repos' = c.repos
                         /\ result' = Managed("add_codebase", codebase_id, "ok")

\* _add_codebase_temp, lines 65-97
add_codebase_temp(name, repo_url, files, fault) ==
    LET codebase_id == db.seq + 1
        chunks == temp_chunks(files)
        inserted == db_add_codebase(db, Row(name, repo_url, None, STORAGE_MODE_TEMP))
        a == add_documents_or_raise(codebase_id, chunks, TRUE, fault)
    IN  /\ UNCHANGED repos
        /\ IF fault \in {"clone", "insert"} \/ name_taken(db, name)
           THEN \* line 70 or line 73 raised
                /\ UNCHANGED <<clients, collections, disk, db>>
                /\ result' = Managed("add_codebase", 0, "raise")
           ELSE /\ clients' = a.clients
                /\ collections' = a.collections
                /\ disk' = a.disk
                /\ IF a.raised \/ fault = "stats"
                   THEN \* line 86 or line 89 raised: lines 95-97 re-raise
                        /\ db' = inserted
                        /\ result' = Managed("add_codebase", codebase_id, "raise")
                   ELSE /\ db' = update_codebase_stats(inserted, codebase_id,
                                                       processed_files(files),
                                                       Len(chunks))
                        /\ result' = Managed("add_codebase", codebase_id, "ok")

\* add_codebase, lines 23-35
manager_add_codebase(name, repo_url, storage_mode, files, fault) ==
    /\ pc = "idle"
    /\ db.seq + 1 \in Tenants
    /\ IF storage_mode = STORAGE_MODE_TEMP
       THEN add_codebase_temp(name, repo_url, files, fault)
       ELSE add_codebase_local(name, repo_url, files, fault)
    /\ call' = [op |-> "add_codebase", id |-> 0]
    /\ pc' = "idle"
    /\ UNCHANGED current_codebase_id
    /\ UNCHANGED processor_vars

\* switch_codebase, lines 161-168
manager_switch_codebase(codebase_id) ==
    /\ pc = "idle"
    /\ IF db.codebases[codebase_id] # None
       THEN /\ current_codebase_id' = codebase_id
            /\ result' = Managed("switch_codebase", codebase_id, "true")
       ELSE /\ UNCHANGED current_codebase_id
            /\ result' = Managed("switch_codebase", codebase_id, "false")
    /\ call' = [op |-> "switch_codebase", id |-> codebase_id]
    /\ pc' = "idle"
    /\ UNCHANGED <<clients, collections, disk, db, repos>>
    /\ UNCHANGED processor_vars

DeleteFaults == {"none", "reclaim", "rmtree"}

\* delete_codebase, lines 170-196.  os.path.exists(None) raises TypeError,
\* which line 194 catches like every other exception.
manager_delete_codebase(codebase_id, fault) ==
    /\ pc = "idle"
    /\ LET codebase == db.codebases[codebase_id]
           s == store_delete_codebase(codebase_id, fault # "reclaim")
       IN  IF codebase = None
           THEN /\ UNCHANGED <<clients, collections, disk, db, repos,
                               current_codebase_id>>
                /\ result' = Managed("delete_codebase", codebase_id, "false")
           ELSE /\ db' = db_delete_codebase(db, codebase_id)
                /\ clients' = s.clients
                /\ collections' = s.collections
                /\ disk' = s.disk
                /\ IF s.raised \/ codebase.local_path = None
                      \/ (repos[codebase.local_path] # None /\ fault = "rmtree")
                   THEN /\ UNCHANGED <<repos, current_codebase_id>>
                        /\ result' = Managed("delete_codebase", codebase_id,
                                             "false")
                   ELSE /\ repos' = [repos EXCEPT ![codebase.local_path] = None]
                        /\ current_codebase_id' =
                              IF current_codebase_id = codebase_id
                              THEN NoCodebase ELSE current_codebase_id
                        /\ result' = Managed("delete_codebase", codebase_id,
                                             "true")
    /\ call' = [op |-> "delete_codebase", id |-> codebase_id, fault |-> fault]
    /\ pc' = "idle"
    /\ UNCHANGED processor_vars

RefreshFaults == {"none", "clone", "embed", "store", "stats"}

\* refresh_codebase, lines 198-228, and _refresh_temp_codebase, lines
\* 330-362.  A local codebase whose safe processing raised, or whose
\* directory is missing, goes on to _reclone_codebase (line 224).
manager_refresh_codebase(codebase_id, files, fault) ==
    /\ pc = "idle"
    /\ LET codebase == db.codebases[codebase_id]
       IN  IF codebase = None
           THEN /\ UNCHANGED <<clients, collections, disk, db>>
                /\ result' = Managed("refresh_codebase", codebase_id, "false")
                /\ pc' = "idle"
           ELSE IF codebase.storage_mode = STORAGE_MODE_TEMP
           THEN LET chunks == temp_chunks(files)
                    a == add_documents_or_raise(codebase_id, chunks, TRUE, fault)
                IN  IF fault = "clone"
                    THEN /\ UNCHANGED <<clients, collections, disk, db>>
                         /\ result' = Managed("refresh_codebase", codebase_id,
                                              "false")
                         /\ pc' = "idle"
                    ELSE /\ clients' = a.clients
                         /\ collections' = a.collections
                         /\ disk' = a.disk
                         /\ pc' = "idle"
                         /\ IF a.raised \/ fault = "stats"
                            THEN /\ UNCHANGED db
                                 /\ result' = Managed("refresh_codebase", codebase_id,
                                                      "false")
                            ELSE /\ db' = update_codebase_stats(db, codebase_id,
                                                                processed_files(files),
                                                                Len(chunks))
                                 /\ result' = Managed("refresh_codebase", codebase_id,
                                                      "true")
           ELSE IF codebase.local_path # None /\ repos[codebase.local_path] # None
           THEN LET p == safe_processed(db, codebase_id,
                                        repos[codebase.local_path].files, fault)
                IN  /\ clients' = p.clients
                    /\ collections' = p.collections
                    /\ disk' = p.disk
                    /\ db' = p.db
                    /\ IF p.raised
                       THEN /\ result' = Managed("none", codebase_id, "pending")
                            /\ pc' = "reclone"
                       ELSE /\ result' = Managed("refresh_codebase", codebase_id,
                                                 "true")
                            /\ pc' = "idle"
           ELSE /\ UNCHANGED <<clients, collections, disk, db>>
                /\ result' = Managed("none", codebase_id, "pending")
                /\ pc' = "reclone"
    /\ call' = [op |-> "refresh_codebase", id |-> codebase_id]
    /\ UNCHANGED <<repos, current_codebase_id>>
    /\ UNCHANGED processor_vars

RecloneFaults == RefreshFaults \cup {"remove"}

\* _reclone_codebase, lines 393-417: _force_remove_directory on the local
\* path when it exists (fault "remove": it raised), clone_or_load_repo,
\* _safe_process_codebase
manager_reclone_codebase(files, fault) ==
    /\ pc = "reclone"
    /\ LET codebase_id == call.id
           codebase == db.codebases[codebase_id]
           local_path == codebase.local_path
           existed == repos[local_path] # None
           removed == [repos EXCEPT ![local_path] = None]
           c == clone_or_load_repo(removed, codebase.repo_url, local_path, files,
                                   fault # "clone")
           p == safe_processed(db, codebase_id, files, fault)
       IN  IF existed /\ fault = "remove"
           THEN /\ UNCHANGED <<clients, collections, disk, db, repos>>
                /\ result' = Managed("refresh_codebase", codebase_id, "false")
           ELSE IF c.raised
           THEN /\ UNCHANGED <<clients, collections, disk, db>>
                /\ repos' = c.repos
                /\ result' = Managed("refresh_codebase", codebase_id, "false")
           ELSE /\ repos' = c.repos
                /\ clients' = p.clients
                /\ collections' = p.collections
                /\ disk' = p.disk
                /\ db' = p.db
                /\ result' = Managed("refresh_codebase", codebase_id,
                                     IF p.raised THEN "false" ELSE "true")
    /\ pc' = "idle"
    /\ UNCHANGED <<call, current_codebase_id>>
    /\ UNCHANGED processor_vars

\* reprocess_codebase, lines 307-328.  os.path.exists(None), line 313, is
\* outside the try block: for a codebase without local path it raises.
manager_reprocess_codebase(codebase_id, fault) ==
    /\ pc = "idle"
    /\ LET codebase == db.codebases[codebase_id]
       IN  IF codebase = None
           THEN /\ UNCHANGED <<clients, collections, disk, db>>
                /\ result' = Managed("reprocess_codebase", codebase_id, "false")
           ELSE IF codebase.local_path = None
           THEN /\ UNCHANGED <<clients, collections, disk, db>>
                /\ result' = Managed("reprocess_codebase", codebase_id, "raise")
           ELSE IF repos[codebase.local_path] = None
           THEN /\ UNCHANGED <<clients, collections, disk, db>>
                /\ result' = Managed("reprocess_codebase", codebase_id, "false")
           ELSE LET p == safe_processed(db, codebase_id,
                                        repos[codebase.local_path].files, fault)
                IN  /\ clients' = p.clients
                    /\ collections' = p.collections
                    /\ disk' = p.disk
                    /\ db' = p.db
                    /\ result' = Managed("reprocess_codebase", codebase_id,
                                         IF p.raised THEN "false" ELSE "true")
    /\ call' = [op |-> "reprocess_codebase", id |-> codebase_id]
    /\ pc' = "idle"
    /\ UNCHANGED <<repos, current_codebase_id>>
    /\ UNCHANGED processor_vars

NextManager ==
    \/ \E name \in Names, repo_url \in Urls, files \in ManagerRepos,
          storage_mode \in {STORAGE_MODE_LOCAL, STORAGE_MODE_TEMP},
          fault \in AddFaults :
          manager_add_codebase(name, repo_url, storage_mode, files, fault)
    \/ \E t \in Tenants : manager_switch_codebase(t)
    \/ \E t \in Tenants, fault \in DeleteFaults : manager_delete_codebase(t, fault)
    \/ \E t \in Tenants, files \in ManagerRepos, fault \in RefreshFaults :
          manager_refresh_codebase(t, files, fault)
    \/ \E files \in ManagerRepos, fault \in RecloneFaults :
          manager_reclone_codebase(files, fault)
    \/ \E t \in Tenants, fault \in {"none", "embed", "store", "stats"} :
          manager_reprocess_codebase(t, fault)

SpecManager == InitManager /\ [][NextManager]_vars

----------------------------------------------------------------------------
(* process_repository and _cleanup, src/temp_processor.py lines 25-120,     *)
(* under two callers of the one TempRepositoryProcessor that the manager    *)
(* creates (src/codebase_manager.py line 20).  The methods take no lock,    *)
(* so the callers interleave at the statements that read or write           *)
(* self.temp_dir.  Here pc and call are indexed by caller; call keeps the   *)
(* name mkdtemp returned to the caller, and result keeps what each caller   *)
(* was handed, whose clone filled each directory, and whether an rmtree     *)
(* has failed.                                                              *)

NoOverlapCall == [dir |-> None, raising |-> FALSE, source |-> 0]

NoOutcome == [status |-> "none", source |-> 0]

InitOverlap ==
    /\ clients = [t \in Tenants |-> NoHandle]
    /\ collections = [t \in Tenants |-> NoHandle]
    /\ disk = [n \in AllNames |-> NoDir]
    /\ pc = [c \in Callers |-> "idle"]
    /\ call = [c \in Callers |-> NoOverlapCall]
    /\ result = [ret |-> [c \in Callers |-> NoOutcome],
                 cloned |-> [d \in TempNames |-> 0],
                 rmtree_failed |-> FALSE]
    /\ temp_dir = None
    /\ tmp = [d \in TempNames |-> FALSE]
    /\ db = NoRows
    /\ repos = [path \in Paths |-> None]
    /\ current_codebase_id = NoCodebase

\* line 36: self.temp_dir = tempfile.mkdtemp(...), which draws a name that
\* is not in use, or raises and creates nothing
process_repository_by(c, name, ok) ==
    /\ pc[c] = "idle"
    /\ ~tmp[name]
    /\ IF ok
       THEN /\ tmp' = [tmp EXCEPT ![name] = TRUE]
            /\ temp_dir' = name
            /\ call' = [call EXCEPT ![c] = [NoOverlapCall EXCEPT !.dir = name]]
            /\ pc' = [pc EXCEPT ![c] = "clone"]
            /\ result' = [result EXCEPT !.ret[c] = NoOutcome]
       ELSE /\ call' = [call EXCEPT ![c] = NoOverlapCall]
            /\ result' = [result EXCEPT !.ret[c] = [NoOutcome EXCEPT
                                                       !.status = "raise"]]
            /\ UNCHANGED <<pc, temp_dir, tmp>>
    /\ UNCHANGED <<clients, collections, disk>>
    /\ UNCHANGED manager_vars

\* lines 42-43: git.Repo.clone_from(repo_url, self.temp_dir).  The clone
\* fills the directory the field names at this moment, making it when it is
\* gone; it fails on a directory that a clone has filled.  What the library
\* does with None is not decided by this source: it raises, or it clones
\* to a place outside the temporary directory.
tp_clone_by(c, ok) ==
    /\ pc[c] = "clone"
    /\ ok => IF temp_dir = None THEN TRUE ELSE result.cloned[temp_dir] = 0
    /\ IF ok /\ temp_dir # None
       THEN /\ tmp' = [tmp EXCEPT ![temp_dir] = TRUE]
            /\ result' = [result EXCEPT !.cloned[temp_dir] = c]
       ELSE UNCHANGED <<tmp, result>>
    /\ call' = [call EXCEPT ![c].raising = ~ok]
    /\ pc' = [pc EXCEPT ![c] = IF ok THEN "process" ELSE "cleanup"]
    /\ UNCHANGED <<clients, collections, disk, temp_dir>>
    /\ UNCHANGED manager_vars

\* lines 47-95: get_source_files(self.temp_dir), chunking, and the
\* placeholder with os.listdir(self.temp_dir).  os.walk raises on None; on
\* a directory that is gone it yields nothing and os.listdir raises.
\* Otherwise the chunks come from the repository found in the directory.
tp_process_by(c, ok) ==
    /\ pc[c] = "process"
    /\ call' = IF ok /\ temp_dir # None /\ tmp[temp_dir]
               THEN [call EXCEPT ![c].source = result.cloned[temp_dir]]
               ELSE [call EXCEPT ![c].raising = TRUE]
    /\ pc' = [pc EXCEPT ![c] = "cleanup"]
    /\ UNCHANGED <<clients, collections, disk, result, temp_dir, tmp>>
    /\ UNCHANGED manager_vars

\* what process_repository leaves caller c with once _cleanup is done
tp_returned_by(c) ==
    IF call[c].raising
    THEN [status |-> "raise", source |-> 0]
    ELSE [status |-> "ok", source |-> call[c].source]

\* _cleanup, lines 106-111: shutil.rmtree(self.temp_dir) when the field is
\* set and the directory exists; the field is reset only inside that branch
tp_cleanup_by(c, ok) ==
    /\ pc[c] = "cleanup"
    /\ IF temp_dir # None /\ tmp[temp_dir]
       THEN IF ok
            THEN /\ tmp' = [tmp EXCEPT ![temp_dir] = FALSE]
                 /\ temp_dir' = None
                 /\ pc' = [pc EXCEPT ![c] = "idle"]
                 /\ result' = [result EXCEPT !.ret[c] = tp_returned_by(c),
                                             !.cloned[temp_dir] = 0]
            ELSE /\ pc' = [pc EXCEPT ![c] = "cleanup_rename"]
                 /\ result' = [result EXCEPT !.rmtree_failed = TRUE]
                 /\ UNCHANGED <<tmp, temp_dir>>
       ELSE /\ pc' = [pc EXCEPT ![c] = "idle"]
            /\ result' = [result EXCEPT !.ret[c] = tp_returned_by(c)]
            /\ UNCHANGED <<tmp, temp_dir>>
    /\ UNCHANGED <<clients, collections, disk, call>>
    /\ UNCHANGED manager_vars

\* _cleanup, lines 112-120: os.rename(self.temp_dir, backup_name) with the
\* field as it is at this moment; a failure (None included) is printed
\* only; finally self.temp_dir = None
tp_cleanup_rename_by(c, ok) ==
    /\ pc[c] = "cleanup_rename"
    /\ IF /\ ok
          /\ temp_dir # None
          /\ tmp[temp_dir]
          /\ ~tmp[cleanup_failed_name(temp_dir)]
       THEN /\ tmp' = [tmp EXCEPT ![temp_dir] = FALSE,
                                  ![cleanup_failed_name(temp_dir)] = TRUE]
            /\ result' = [result EXCEPT
                              !.ret[c] = tp_returned_by(c),
                              !.cloned[cleanup_failed_name(temp_dir)] =
                                  result.cloned[temp_dir],
                              !.cloned[temp_dir] = 0]
       ELSE /\ tmp' = tmp
            /\ result' = [result EXCEPT !.ret[c] = tp_returned_by(c)]
    /\ temp_dir' = None
    /\ pc' = [pc EXCEPT ![c] = "idle"]
    /\ UNCHANGED <<clients, collections, disk, call>>
    /\ UNCHANGED manager_vars

NextOverlap ==
    \/ \E c \in Callers, d \in TempDirs, ok \in BOOLEAN :
          process_repository_by(c, d, ok)
    \/ \E c \in Callers, ok \in BOOLEAN : tp_clone_by(c, ok)
    \/ \E c \in Callers, ok \in BOOLEAN : tp_process_by(c, ok)
    \/ \E c \in Callers, ok \in BOOLEAN : tp_cleanup_by(c, ok)
    \/ \E c \in Callers, ok \in BOOLEAN : tp_cleanup_rename_by(c, ok)

SpecOverlap == InitOverlap /\ [][NextOverlap]_vars

----------------------------------------------------------------------------
(* Properties *)

\* the documents in the directory at a tenant's path
StoredAt(t) == disk[get_db_path(t)].docs

\* the last operation has returned and nothing has run since
Returned(op, status) == pc = "idle" /\ result.op = op /\ result.status = status

\* C1: after an add_documents(replace_existing=true) with a non-empty batch
\* has returned normally, the tenant's collection holds exactly the documents
\* of that batch and its count is the batch's length.
C1_ReplaceHoldsLastBatch ==
    (Returned("add", "ok") /\ call.replace_existing /\ call.documents # <<>>)
        => /\ StoredAt(call.id) = NewDocs(call.id, call.documents)
           /\ coll_count(disk[get_db_path(call.id)]) = Len(call.documents)

\* C2: isolation.  A query against a tenant returns only documents added to
\* that tenant; its stats count only its own documents; and no step of an
\* operation on one tenant (delete_codebase included) changes the directory
\* or the cached handles of another tenant.
C2_QueryOwn ==
    Returned("query", "ok") => \A d \in result.docs : d.codebase_id = result.id

C2_StatsOwn ==
    (Returned("stats", "ok") /\ result.exists)
        => result.document_count =
              Cardinality({d \in StoredAt(result.id) : d.codebase_id = result.id})

C2_Frame ==
    \A b \in Tenants :
        (call'.id # b) => /\ disk'[get_db_path(b)] = disk[get_db_path(b)]
                          /\ clients'[b] = clients[b]
                          /\ collections'[b] = collections[b]

C2_Isolation == [](C2_QueryOwn /\ C2_StatsOwn) /\ [][C2_Frame]_vars

\* C2 witness: a query against one tenant has returned documents while the
\* other tenant holds documents of its own.
C2_Witness ==
    /\ Returned("query", "ok")
    /\ result.docs # {}
    /\ \E b \in Tenants : b # result.id /\ StoredAt(b) # {}

\* C3: no step of add_documents(replace_existing=true), whether its clear
\* or its insert phase fails or not, leaves the tenant's collection holding
\* anything but a remainder of what it held before the step (the old batch,
\* part of it, or nothing) or exactly the new batch: old and new documents
\* are never stored together.
C3_ReplaceNeverMixes ==
    [][(pc \in {"add_clear", "add_insert"} /\ call.replace_existing)
          => LET pre == StoredAt(call.id)
                 post == disk'[get_db_path(call.id)].docs
                 new == NewDocs(call.id, call.documents)
             IN  post \subseteq pre \/ post = new]_vars

\* C4: when the insert phase of add_documents(replace_existing=true) ends
\* without the batch stored, after the clear phase completed, the tenant is
\* left with zero documents and the call raises.
C4_InsertFailureEmptyAndRaised ==
    [][(pc = "add_insert" /\ call.replace_existing /\ call.removed >= 0
           /\ disk'[get_db_path(call.id)].docs # NewDocs(call.id, call.documents))
          => /\ disk'[get_db_path(call.id)].docs = {}
             /\ pc' = "idle"
             /\ result'.status = "raise"]_vars

\* C4 witness: a replace that removed stored documents and then failed to
\* insert has returned.
C4_Witness ==
    /\ Returned("add", "raise")
    /\ call.replace_existing
    /\ call.removed > 0
    /\ StoredAt(call.id) = {}

\* C5: add_documents with an empty batch returns normally and leaves the
\* handle caches and every directory unchanged, for every tenant and both
\* values of replace_existing.
C5_EmptyAddIsNoOp ==
    [][(pc = "idle" /\ call'.op = "add" /\ call'.documents = <<>>)
          => /\ clients' = clients
             /\ collections' = collections
             /\ disk' = disk
             /\ pc' = "idle"
             /\ result'.status = "ok"]_vars

\* C5 witness: an empty replace returned on a tenant that still holds its
\* documents, and one returned on a tenant that is still unprovisioned.
C5_Witness ==
    /\ Returned("add", "ok")
    /\ call.documents = <<>>
    /\ call.replace_existing
    /\ \/ StoredAt(call.id) # {}
       \/ (clients[call.id] = NoHandle /\ ~disk[get_db_path(call.id)].exists)

\* C6: query_codebase on a tenant without a cached collection raises and
\* changes neither the caches nor the disk, whether or not the tenant's
\* directory exists.
C6_QueryUnprovisionedRaises ==
    [][(pc = "idle" /\ call'.op = "query" /\ collections[call'.id] = NoHandle)
          => /\ result'.status = "raise"
             /\ pc' = "idle"
             /\ clients' = clients
             /\ collections' = collections
             /\ disk' = disk]_vars

\* C6 witness: a query raised for a tenant whose directory, with documents,
\* was left on disk by an earlier process.
C6_Witness ==
    /\ Returned("query", "raise")
    /\ collections[result.id] = NoHandle
    /\ disk[get_db_path(result.id)].exists
    /\ StoredAt(result.id) # {}

\* C7: get_codebase_stats on a tenant that has no directory returns
\* exists = false and document_count = 0 without raising; on a tenant that
\* has one, a result that says exists carries the collection's count.
C7_StatsDoesNotExist ==
    [][(pc = "idle" /\ call'.op = "stats")
          => IF ~disk[get_db_path(call'.id)].exists
             THEN /\ result'.status = "ok"
                  /\ result'.exists = FALSE
                  /\ result'.document_count = 0
             ELSE result'.exists
                     => result'.document_count = coll_count(disk[get_db_path(call'.id)])]_vars

\* C8: once delete_codebase has returned normally the tenant is in neither
\* cache and has no directory at its path, and when it removed a directory
\* the next add (of a non-empty batch), query or stats on that tenant raises.
C8_DestroyedUntilProvisioned ==
    /\ [](Returned("delete", "ok")
            => /\ clients[result.id] = NoHandle
               /\ collections[result.id] = NoHandle
               /\ ~disk[get_db_path(result.id)].exists)
    /\ [][(Returned("delete", "ok") /\ call.orig # {} /\ call'.id = result.id
              /\ \/ call'.op \in {"query", "stats"}
                 \/ call'.op = "add" /\ call'.documents # <<>>)
             => pc' = "idle" /\ result'.status = "raise"]_vars

\* C9: when delete_codebase has returned normally, the directory is gone
\* from its path and, if it was renamed, the backup holds every entry the
\* directory held when the call began.
C9_AllOrRelocated ==
    Returned("delete", "ok")
        => /\ ~disk[get_db_path(result.id)].exists
           /\ call.backup # NoHandle => disk[call.backup].files = call.orig

\* C10: a list_codebases that follows a normally returned delete_codebase
\* does not contain the deleted tenant id.
C10_DeletedNotListed ==
    [][(Returned("delete", "ok") /\ pc' = "idle" /\ call'.op = "list")
          => result.id \notin Listed(result')]_vars

\* C11: both reclaimers use a bounded number of attempts and, once entered,
\* return, whatever the pattern of failing deletes; and a run that ends
\* before the last attempt has failed ends with the directory gone from its
\* path and no error: raising, returning False and renaming happen only
\* after every attempt up to the ceiling has failed.
InReclaim ==
    pc \in {"rmtree", "retry", "rename",
            "cleanup_rmtree", "cleanup_retry", "cleanup_rename"}

Ceiling == IF call.op = "cleanup" THEN cleanup_max_retries ELSE max_retries

C11_Bounded ==
    /\ InReclaim => call.attempt <= Ceiling - 1
    /\ pc \in {"rename", "cleanup_rename"} => call.attempt = Ceiling - 1

C11_EarlyEnd ==
    (InReclaim /\ pc' = "idle" /\ call.attempt < Ceiling - 1)
        => /\ result'.status \in {"ok", "true"}
           /\ call'.backup = NoHandle
           /\ ~disk'[get_db_path(call.id)].exists

C11_ReclaimTerminates ==
    []C11_Bounded /\ [][C11_EarlyEnd]_vars /\ (InReclaim ~> pc = "idle")

\* C11 witness: a reclaimer whose deletes failed during all but the last
\* attempt has returned with the directory gone.
C11_Witness ==
    /\ pc = "idle"
    /\ call.op \in {"delete", "cleanup"}
    /\ call.attempt = Ceiling - 1
    /\ call.backup = NoHandle
    /\ result.status \in {"ok", "true"}
    /\ ~disk[get_db_path(call.id)].exists

\* C12: a reclaimer reaches the rename only after all its delete attempts
\* failed; the rename either moves the directory to a timestamped backup
\* name beside it and success is reported, or it fails and an error is
\* raised; and no reclaimer returns without raising while the directory is
\* still at its original path.
C12_Rename ==
    pc \in {"rename", "cleanup_rename"}
        => LET path == get_db_path(call.id)
           IN  \/ /\ result'.status \in {"ok", "true"}
                  /\ ~disk'[path].exists
                  /\ \E ts \in Timestamps : call'.backup = backup_path(path, ts)
                  /\ disk'[call'.backup].exists
               \/ /\ result'.status = "raise"
                  /\ disk' = disk

C12_NoNormalReturnInPlace ==
    (InReclaim /\ pc' = "idle" /\ result'.status # "raise")
        => ~disk'[get_db_path(call.id)].exists

C12_RenameOrRaise ==
    /\ [](pc \in {"rename", "cleanup_rename"} => call.attempt = Ceiling - 1)
    /\ [][C12_Rename /\ C12_NoNormalReturnInPlace]_vars

\* C14: while delete_codebase reclaims a tenant's directory neither cache
\* holds a handle for that tenant: both were evicted before the first
\* rmtree, and every step that deletes from or renames the directory starts
\* with both caches empty for the tenant.
C14_Evicted == clients[call.id] = NoHandle /\ collections[call.id] = NoHandle

C14_EvictedBeforeReclaim ==
    /\ [](pc \in {"rmtree", "retry", "rename"} => C14_Evicted)
    /\ [][(call.op = "delete"
              /\ disk'[get_db_path(call.id)] # disk[get_db_path(call.id)])
             => C14_Evicted]_vars

\* C14 witness: the reclaimer has come to the rename of a directory that
\* holds documents added by this process, through handles it had cached.
C14_Witness ==
    /\ pc = "rename"
    /\ \E d \in StoredAt(call.id) : d.document = "b"
    /\ C14_Evicted

\* C13: under every interleaving of two callers of get_client_and_collection
\* at most one client and one collection handle are ever created for a
\* tenant, and two callers that were handed handles for the same tenant
\* were handed the same ones; a call that finds the tenant cached creates
\* nothing.
MadeFor(made, t) == {h \in made : h.path = get_db_path(t)}

C13_OneHandlePerTenant ==
    /\ \A t \in Tenants :
          /\ Cardinality(MadeFor(result.made_clients, t)) <= 1
          /\ Cardinality(MadeFor(result.made_collections, t)) <= 1
    /\ \A c, d \in Callers :
          (result.ret[c].status = "ok" /\ result.ret[d].status = "ok"
              /\ result.ret[c].id = result.ret[d].id)
             => result.ret[c] = result.ret[d]

C13_CachedCallCreatesNothing ==
    \A c \in Callers :
        (pc[c] = "check" /\ pc'[c] = "return")
           => /\ clients[call[c]] # NoHandle
              /\ UNCHANGED <<clients, collections, disk>>
              /\ result'.made_clients = result.made_clients
              /\ result'.made_collections = result.made_collections

C13_SafeUnderConcurrency ==
    []C13_OneHandlePerTenant /\ [][C13_CachedCallCreatesNothing]_vars

\* the call ran under the configuration that config.py ships
Shipped ==
    call.config = [CHUNK_SIZE |-> CHUNK_SIZE, CHUNK_OVERLAP |-> CHUNK_OVERLAP]

Step == CHUNK_SIZE - CHUNK_OVERLAP

\* the text itself as a chunk sequence: one chunk unless it is blank
Whole(lines) ==
    IF \E k \in 1..Len(lines) : lines[k] # 0 THEN <<lines>> ELSE <<>>

\* C15 as claimed: a text of fewer than CHUNK_SIZE lines yields exactly one
\* chunk, the whole text, when it is not blank and no chunk when it is.
C15_ShortTextOneChunk ==
    (pc = "done" /\ Shipped /\ Len(call.lines) < CHUNK_SIZE)
        => result.status = "ok" /\ result.chunks = Whole(call.lines)

\* C15 amended: that holds for texts of at most CHUNK_SIZE - CHUNK_OVERLAP
\* lines; a longer text of fewer than CHUNK_SIZE lines yields the whole text
\* (when not blank) followed by a second chunk, the lines from position
\* CHUNK_SIZE - CHUNK_OVERLAP on, when those are not all blank.
C15_ShortText ==
    (pc = "done" /\ Shipped /\ Len(call.lines) < CHUNK_SIZE)
        => /\ result.status = "ok"
           /\ result.chunks =
                 IF Len(call.lines) <= Step
                 THEN Whole(call.lines)
                 ELSE Whole(call.lines)
                         \o Whole(SubSeq(call.lines, Step + 1, Len(call.lines)))

\* C15 witness: a text of more than CHUNK_SIZE - CHUNK_OVERLAP and fewer
\* than CHUNK_SIZE lines came back as two chunks.
C15_Witness ==
    /\ pc = "done"
    /\ Shipped
    /\ Len(call.lines) > Step
    /\ Len(call.lines) < CHUNK_SIZE
    /\ Len(result.chunks) = 2

\* C16: under a configuration with CHUNK_SIZE <= CHUNK_OVERLAP chunk_code
\* raises and produces no chunk; it never returns normally.
C16_BadConfigRejected ==
    (pc = "done" /\ call.config.CHUNK_SIZE <= call.config.CHUNK_OVERLAP)
        => result.status = "raise" /\ result.chunks = <<>>

\* C17: under the shipped configuration, for a text of n lines none of
\* whose windows is blank, chunk k (from 0) is the lines from position
\* 30 * k on, min(40, n - 30 * k) of them; every chunk has at most 40
\* lines; two consecutive chunks share exactly 10 lines unless the second
\* is the last; and a text of 100 lines is cut at 0, 30, 60 and 90.
NoBlankWindow(lines) ==
    \A k \in 0..((Len(lines) - 1) \div Step) :
        \E j \in (Step * k + 1)..Min(Step * k + CHUNK_SIZE, Len(lines)) :
            lines[j] # 0

C17_ChunkStarts ==
    (pc = "done" /\ Shipped /\ NoBlankWindow(call.lines))
        => LET n == Len(call.lines)
               chunks == result.chunks
           IN  /\ result.status = "ok"
               /\ Len(chunks) = (n + Step - 1) \div Step
               /\ \A k \in 0..(Len(chunks) - 1) :
                     /\ chunks[k + 1] =
                           SubSeq(call.lines, Step * k + 1, Min(Step * k + CHUNK_SIZE, n))
                     /\ Len(chunks[k + 1]) = Min(CHUNK_SIZE, n - Step * k)
                     /\ Len(chunks[k + 1]) <= CHUNK_SIZE
               /\ \A k \in 1..(Len(chunks) - 2) :
                     /\ SubSeq(chunks[k], Step + 1, CHUNK_SIZE)
                           = SubSeq(chunks[k + 1], 1, CHUNK_OVERLAP)
                     /\ Len(SubSeq(chunks[k], Step + 1, CHUNK_SIZE)) = CHUNK_OVERLAP
               /\ (n = 100 /\ \A j \in 1..n : call.lines[j] = j)
                     => [k \in 1..Len(chunks) |-> chunks[k][1] - 1] = <<0, 30, 60, 90>>

\* C17 witness: a text of 100 lines, none blank, came back as four chunks.
C17_Witness ==
    /\ pc = "done"
    /\ Shipped
    /\ Len(call.lines) = 100
    /\ \A j \in 1..100 : call.lines[j] = j
    /\ Len(result.chunks) = 4

\* no file of the repository yields a chunk: it has no source file, or every
\* source file is unreadable, empty or blank
Unproducible(files) ==
    \A i \in 1..Len(files) :
        ~files[i].readable \/ \A k \in 1..Len(files[i].content) : files[i].content[k] = 0

\* C18: when an ingest of a repository from which no chunk can be produced
\* has returned normally, in either persistent mode or in the ephemeral
\* one, exactly one chunk, the placeholder, was handed over for storing.
C18_PlaceholderHanded ==
    (pc = "idle" /\ result.status = "ok" /\ Unproducible(call.files)
        /\ result.op \in {"process_codebase", "safe_process_codebase",
                          "process_repository"})
       => result.chunks = <<placeholder>>

\* C19: when process_repository has returned, normally or by raising, the
\* directory that mkdtemp made for the call is no longer at its path and
\* self.temp_dir is None.
C19_TempDirGone ==
    (pc = "idle" /\ call.op = "process_repository" /\ call.dir # None)
        => ~tmp[call.dir] /\ temp_dir = None

\* C24: the list that list_codebases returns holds exactly the ids of the
\* tenants that have a directory codebase_{tenant_id} on disk at that
\* moment, whether or not a handle for the tenant is cached.
C24_ListedAreOnDisk ==
    Returned("list", "ok")
        => Listed(result) = {t \in Tenants : disk[get_db_path(t)].exists}

\* C25: the client cache and the collection cache hold the same tenant ids.
C25_CachesAgree ==
    \A t \in Tenants : (clients[t] = NoHandle) <=> (collections[t] = NoHandle)

\* C30: with 0 < overlap < window, chunk_code returns, with at most one
\* chunk per line of the text, and every line of the text that is not blank
\* is a line of at least one returned chunk.
C30_NoLineLost ==
    (pc = "done" /\ 0 < call.config.CHUNK_OVERLAP
        /\ call.config.CHUNK_OVERLAP < call.config.CHUNK_SIZE)
       => /\ result.status = "ok"
          /\ Len(result.chunks) <= Len(call.lines)
          /\ \A j \in 1..Len(call.lines) :
                call.lines[j] # 0
                   => \E k \in 1..Len(result.chunks) :
                         \E m \in 1..Len(result.chunks[k]) :
                            result.chunks[k][m] = call.lines[j]

\* C30 witness: a text whose only non-blank line lies behind blank windows
\* came back as chunks, under a configuration with overlap < window.
C30_Witness ==
    /\ pc = "done"
    /\ call.config.CHUNK_OVERLAP < call.config.CHUNK_SIZE
    /\ Len(call.lines) = MaxLines
    /\ \A j \in 1..Len(call.lines) : call.lines[j] # 0 <=> j = Len(call.lines)
    /\ result.chunks # <<>>

\* C23 as claimed: the reclaimer of delete_codebase makes up to 5 attempts,
\* sleeps 2^attempt seconds before each retry, and renames the directory
\* only after the 5th attempt has failed.
C23_FiveAttemptsBackoff ==
    /\ pc \in {"rmtree", "retry"} => call.attempt <= 4
    /\ pc = "rename" => call.attempt = 4 /\ call.slept = <<1, 2, 4, 8>>

\* C23 amended: the reclaimer of delete_codebase makes up to 3 attempts; it
\* sleeps 1 second before each retry and 2 seconds after a retry that
\* failed, and it renames the directory only after the 3rd attempt has
\* failed.  The ceiling of 5 attempts and the wait of 2^attempt seconds are
\* those of the cleanup utility.
C23_ThreeAttemptsFixedWaits ==
    /\ pc \in {"rmtree", "retry"}
          => /\ call.attempt <= 2
             /\ Len(call.slept) = 2 * call.attempt
             /\ \A k \in 1..Len(call.slept) :
                   call.slept[k] = IF k % 2 = 1 THEN 1 ELSE 2
    /\ pc = "rename" => call.attempt = 2 /\ call.slept = <<1, 2, 1, 2>>
    /\ pc = "cleanup_rename" => call.attempt = 4 /\ call.slept = <<1, 2, 4, 8>>

\* C23 witness: delete_codebase has returned after its reclaimer renamed the
\* directory, having slept 1, 2, 1 and 2 seconds.
C23_Witness ==
    /\ Returned("delete", "ok")
    /\ call.backup # NoHandle
    /\ call.attempt = 2
    /\ call.slept = <<1, 2, 1, 2>>

\* the call of add_documents in progress has a non-empty batch and a
\* metadata list of another length
Mismatched ==
    /\ call.op = "add"
    /\ call.documents # <<>>
    /\ Len(call.metadata) # Len(call.documents)

\* C22: no step of an add_documents whose metadata list is not as long as
\* its batch deletes or inserts a stored document, and the call raises;
\* a call without a metadata list stores document i with chunk_id i and
\* the tenant's id.
C22_MismatchRejected ==
    /\ [][(pc # "idle" /\ Mismatched) => disk' = disk]_vars
    /\ [](Returned("add", "ok") => ~Mismatched)
    /\ []((Returned("add", "ok") /\ call.documents # <<>>
             /\ call.metadata = synthesized(call.id, Len(call.documents)))
            => \A i \in 1..Len(call.documents) :
                  \E d \in StoredAt(call.id) :
                     /\ d.id = <<"doc", call.id, i - 1>>
                     /\ d.chunk_id = i - 1
                     /\ d.codebase_id = call.id)

\* the repository directory of the codebase that refresh_codebase is
\* working on (call.id)
RefreshedPath == db.codebases[call.id].local_path

\* C21: the re-clone of refresh_codebase, which removes the repository
\* directory, is entered only for a codebase whose directory does not
\* exist (refresh_codebase takes no request for a full re-fetch), and it
\* removes or replaces no repository directory that exists.
C21_RefreshReusesPath ==
    /\ [](pc = "reclone" => repos[RefreshedPath] = None)
    /\ [][pc = "reclone"
            => \A path \in Paths : repos[path] # None => repos'[path] = repos[path]]_vars

\* a method of the manager that ingests has returned reporting success
IngestSucceeded ==
    /\ pc = "idle"
    /\ result.op \in {"add_codebase", "refresh_codebase", "reprocess_codebase"}
    /\ result.status \in {"ok", "true"}

\* C26: after add_codebase, refresh_codebase or reprocess_codebase has
\* reported success, the chunk_count of the codebase's row is the number of
\* documents its tenant's collection holds.
C26_ChunkCountIsStored ==
    IngestSucceeded
        => /\ db.codebases[result.id] # None
           /\ db.codebases[result.id].chunk_count = Cardinality(StoredAt(result.id))

\* C27: current_codebase_id never names a codebase without a row; and a
\* delete_codebase of a codebase that has a row, when neither the store's
\* reclaimer nor rmtree fails, returns True with the row and the tenant's
\* directory gone and current_codebase_id not naming the codebase.
C27_DeleteClearsCurrent ==
    /\ [](current_codebase_id # NoCodebase
             => db.codebases[current_codebase_id] # None)
    /\ [][(pc = "idle" /\ call'.op = "delete_codebase" /\ call'.fault = "none"
             /\ result'.op = "delete_codebase"
             /\ db.codebases[call'.id] # None)
            => /\ result'.status = "true"
               /\ db'.codebases[call'.id] = None
               /\ ~disk'[get_db_path(call'.id)].exists
               /\ current_codebase_id' # call'.id]_vars

\* C28: a step of add_codebase that raises leaves no row for the id it
\* inserted, and leaves every row that existed and every repository
\* directory of such a row in place.
C28_FailedAddLeavesNothing ==
    [][(pc = "idle" /\ result'.op = "add_codebase" /\ result'.status = "raise")
         => /\ result'.id # 0 => db'.codebases[result'.id] = None
            /\ \A id \in Tenants :
                  db.codebases[id] # None
                     => /\ db'.codebases[id] = db.codebases[id]
                        /\ (db.codebases[id].local_path # None
                              /\ repos[db.codebases[id].local_path] # None)
                             => repos'[db.codebases[id].local_path] # None]_vars

\* caller c is between its mkdtemp and its _cleanup, and d is the directory
\* mkdtemp made for it
StillReading(c, d) == pc[c] \in {"clone", "process"} /\ call[c].dir = d

\* C29: with two overlapping process_repository calls on one processor, a
\* call clones into and reads the directory mkdtemp made for it; a step
\* never removes a directory that the other call is still reading; and once
\* both calls have returned, no rmtree having failed, no directory that
\* mkdtemp made is left.
C29_OwnTempDirOnly ==
    /\ [][\A c \in Callers :
             (pc[c] \in {"clone", "process"} /\ pc'[c] # pc[c])
                => temp_dir = call[c].dir]_vars
    /\ [][\A c \in Callers, d \in TempDirs :
             (StillReading(c, d) /\ pc'[c] = pc[c]) => (tmp[d] => tmp'[d])]_vars
    /\ []((\A c \in Callers : pc[c] = "idle") /\ ~result.rmtree_failed
             => \A d \in TempDirs : ~tmp[d])

====
